---- MODULE Spec2Model ----
(***************************************************************************)
(* State-machine model of the doqmate RAG core: the query pipeline         *)
(* (services/queryService.py, services/retrieval/search.py,                *)
(* services/llm/queryRefine.py, services/llm/answerGeneration.py) and the  *)
(* LLM refinement stages of ingestion (services/llm/firstRefine.py,        *)
(* services/llm/secondRefine.py).                                          *)
(*                                                                         *)
(* Scores are kept in thousandths (0.85 is 850) and distances in           *)
(* hundredths (1.5 is 150), so that 1/(1+distance) and the threshold       *)
(* comparisons are exact integer arithmetic.                               *)
(***************************************************************************)
EXTENDS Integers, Sequences, FiniteSets, TLC

VARIABLES
    (* ---- one progressQuery run ---- *)
    pc,          \* position of the run inside progressQuery / the search call
    store,       \* vector store: chatbot id -> set of records of its collection
    chatbotId,   \* progressQuery argument
    userGroup,   \* progressQuery argument (NoGroup when not given)
    llm1,        \* how the LLM task 1 exchange of this run ended (http, content)
    norm,        \* QueryRefineResult of refineQuery
    baseChunks,  \* searchTopK result (sequence of chunk dicts)
    rawChunks,   \* searchTopKWithNeighbors result
    chunks,      \* rawChunks sorted by score, descending
    conf,        \* retrievalConfidence computed at the gate
    ambiguity,   \* intentAmbiguityLevel computed at the gate
    context,     \* contextChunksForLLM handed to LLM task 2
    llm2,        \* outcome of the LLM task 2 exchange of this run
    result,      \* the QueryResult returned (NoResult before the return)
    raised,      \* the exception that left progressQuery ("none" when none)
    calls,       \* outbound calls issued so far, in order
    stages,      \* pipeline stages entered so far, in order
    (* ---- one mergeText run ---- *)
    mPc,         \* position inside mergeText
    mPages,      \* the arguments: extraction.text_blocks and ocrBlocks
    mTexts,      \* pymupdf_texts, ocr_texts, src_ids_by_page of _buildPageTexts
    mNext,       \* next page of the loop over sorted(all_pages)
    mResp,       \* LLM task 3 outcome of the page processed last
    mResult,     \* page -> sequence of MergedTextBlock
    mLog,        \* fallback warnings logged so far
    (* ---- one cleanOcrTextBlocks run ---- *)
    cPc,         \* position inside cleanOcrTextBlocks
    cBlocks,     \* input TextBlock list
    cResp,       \* LLM task 0 outcome of the block processed last
    cOut,        \* cleaned_blocks built so far
    (* ---- one chunkMergedPages run ---- *)
    kPc,         \* position inside chunkMergedPages / _chunkPageText
    kArgs,       \* the arguments: mergedPages, maxChars, overlap
    kPage,       \* index in sorted(mergedPages.keys()) of the page at hand
    kText,       \* text of _chunkPageText: the stripped page text
    kStart,      \* start of _chunkPageText
    kOrder,      \* order of _chunkPageText
    kChunks,     \* the TextChunks produced so far
    kWindows,    \* history: page, start and end of the window of each chunk
    (* ---- the vector store under upsertChunks / deleteChunksByDocument ---- *)
    sCol,        \* chatbot id -> (record id -> record) of its collection
    sWriter,     \* history: chatbot id -> (record id -> documentId of the call that wrote it last)
    sLast,       \* history: the call made last, its outcome, whether it removed records
    (* ---- one _filterImagesByContainment run ---- *)
    fPc,         \* position inside _filterImagesByContainment
    fCands,      \* candidates
    fI,          \* i of the outer loop (1-based)
    fRemoved,    \* indices_to_remove (1-based)
    fOut,        \* final_candidates
    (* ---- one _estimateRetrievalConfidence call ---- *)
    ePc,         \* position: before or after the call
    eScore,      \* maxScore, in thousandths
    eBucket,     \* the returned level
    (* ---- one upload (ManualCollection.post) and one DELETE of its document ---- *)
    uAvail,      \* documentServiceAvailable
    uPc,         \* position of the indexing thread inside run_indexing_task
    uStatus,     \* documents.status of the row as committed ("absent": no row)
    uProc,       \* how the processDocument call of the thread ended
    uCause,      \* history: what raised into the except branch of the thread
    uCol,        \* record id -> record of the chatbot's collection
    dPc,         \* position of the DELETE request inside ManualItem.delete
    (* ---- the module-level reader cache of runOCR under concurrent threads ---- *)
    rReader,     \* _OCR_READER: 0 is None, n is the n-th Reader constructed
    rBuilt,      \* history: number of easyocr.Reader constructions so far
    rPc,         \* thread -> position inside runOCR / _getReader
    rLocal,      \* thread -> the reader its runOCR call holds (0: none yet)
    (* ---- one runOCR call ---- *)
    oPc,         \* position inside runOCR
    oPages,      \* maskedPages
    oI,          \* index of the page at hand in the loop over maskedPages
    oSeen,       \* history: page index -> what reader.readtext gave for it
    oBlocks      \* allBlocks

qvars == <<pc, store, chatbotId, userGroup, llm1, norm, baseChunks, rawChunks, chunks,
           conf, ambiguity, context, llm2, result, raised, calls, stages>>
mvars == <<mPc, mPages, mTexts, mNext, mResp, mResult, mLog>>
cvars == <<cPc, cBlocks, cResp, cOut>>
kvars == <<kPc, kArgs, kPage, kText, kStart, kOrder, kChunks, kWindows>>
\* the variables of the runs other than the query, mergeText and
\* cleanOcrTextBlocks runs
svars == <<sCol, sWriter, sLast>>
fvars == <<fPc, fCands, fI, fRemoved, fOut>>
evars == <<ePc, eScore, eBucket>>
uvars == <<uAvail, uPc, uStatus, uProc, uCause, uCol, dPc>>
rvars == <<rReader, rBuilt, rPc, rLocal>>
ovars == <<oPc, oPages, oI, oSeen, oBlocks>>
latevars == <<uvars, rvars, ovars>>
othervars == <<kvars, svars, fvars, evars, latevars>>
vars == <<qvars, mvars, cvars, othervars>>

----------------------------------------------------------------------------
(* Bounds of the model *)

\* topK argument of progressQuery used in the model
MaxTopK == 2
\* largest order_index of a chunk of document D1 in the modelled collection
MaxOrder == 3

(* Program constants *)

\* neighborRadius passed by progressQuery
NeighborRadius == 2
\* _estimateRetrievalConfidence thresholds, in thousandths
HighThreshold == 850
MediumThreshold == 650
LowThreshold == 400
MAX_CONTEXT_CHUNKS_FOR_LLM == 10
MAX_SUPPORTING_CHUNKS_IN_RESULT == 5

CONFIDENCE_ORDER == <<"unknown", "low", "medium", "high">>
MIN_CONFIDENCE_LEVEL_FOR_ANSWER == "low"

----------------------------------------------------------------------------
(* Generic helpers *)

Range(s) == {s[i] : i \in DOMAIN s}

\* Python's stable sorted(): s reordered by ascending integer key k[i],
\* equal keys keeping their original order.
StableSort(s, k) ==
    LET n == Len(s)
        rank(i) == Cardinality({j \in 1..n : k[j] < k[i] \/ (k[j] = k[i] /\ j < i)}) + 1
    IN [r \in 1..n |-> s[CHOOSE i \in 1..n : rank(i) = r]]

Max(S, default) == IF S = {} THEN default ELSE CHOOSE x \in S : \A y \in S : y <= x
Min(S, default) == IF S = {} THEN default ELSE CHOOSE x \in S : \A y \in S : x <= y

\* list.index(): position of v in sequence s, 0 when absent (ValueError)
IndexOf(s, v) == IF \E i \in DOMAIN s : s[i] = v
                 THEN CHOOSE i \in DOMAIN s : s[i] = v /\ \A j \in 1..(i-1) : s[j] # v
                 ELSE 0

\* The elements of a set of records in ascending order of their ord field
SetToSeq(S) ==
    [r \in 1..Cardinality(S) |->
        CHOOSE x \in S : Cardinality({y \in S : y.ord < x.ord}) = r - 1]

\* Mutant of Take: the slice keeps the whole list
Take_All(s, n) == s

\* s[1..n], Python's s[:n]
Take(s, n) == SubSeq(s, 1, IF Len(s) < n THEN Len(s) ELSE n)

----------------------------------------------------------------------------
(* The vector store (Chroma): one collection per chatbot *)

NoGroup == "<none>"
Groups == {"default", "internal"}
Chatbots == {"bot1", "bot2"}
DocRank == [D1 |-> 1, D2 |-> 2, D3 |-> 3]

\* The image keys listed in a record's image_paths metadata
ImagePathsOf(doc, k) == IF k = 0 THEN <<<<doc, "p1_img1">>>>
                        ELSE IF k = 1 THEN <<<<doc, "p1_img1">>, <<doc, "p1_img2">>>>
                        ELSE <<>>

\* A stored record as upsertChunks writes it: id = chunk_id, the collection's
\* chatbot_id, the document_id, scalar user_group, optional order_index.
StoreRecord(bot, doc, k, hasOi, group) ==
    [chunk_id |-> <<doc, k>>, ord |-> DocRank[doc] * 100 + k,
     text |-> <<"text", doc, k>>,
     chatbot_id |-> bot, document_id |-> doc,
     has_oi |-> hasOi, order_index |-> IF hasOi THEN k ELSE 0,
     user_group |-> group, image_paths |-> ImagePathsOf(doc, k)]

\* Chunk slots of chatbot bot1: document D1 with order_index 0..MaxOrder,
\* document D2 with one chunk of order_index 0 and one without order_index.
Slots == ({"D1"} \X (0..MaxOrder)) \cup ({"D2"} \X (0..1))

\* The collections for a given assignment of user groups to the slots
StoreOf(g) ==
    [b \in Chatbots |->
        IF b = "bot1"
        THEN {StoreRecord("bot1", sl[1], sl[2], ~(sl[1] = "D2" /\ sl[2] = 1), g[sl]) : sl \in Slots}
        ELSE {StoreRecord("bot2", "D3", 0, TRUE, "default")}]

----------------------------------------------------------------------------
(* services/retrieval/search.py *)

\* Distances (hundredths) the store may report for a hit
DistSet == {0, 150, 160}

\* _buildWhere applied to a record: chatbot_id always, user_group if given
MatchesWhere(r, bot, group) ==
    /\ r.chatbot_id = bot
    /\ (group # NoGroup => r.user_group = group)

\* _buildMeta: the meta dict of a returned chunk
BuildMeta(r) ==
    [document_id |-> r.document_id, chatbot_id |-> r.chatbot_id,
     has_oi |-> r.has_oi, order_index |-> r.order_index,
     image_paths |-> r.image_paths]

\* score = 1.0 / (1.0 + dist), 0.0 when the division fails; thousandths
Score(dist) == IF 100 + dist = 0 THEN 0 ELSE 100000 \div (100 + dist)

\* The chunk dict searchTopK builds for a hit
HitChunk(r, dist) ==
    [chunk_id |-> r.chunk_id, text |-> r.text, score |-> Score(dist), meta |-> BuildMeta(r)]

\* The chunk dict searchTopKWithNeighbors builds for a neighbour: score 0.0
NeighborChunk(r) ==
    [chunk_id |-> r.chunk_id, text |-> r.text, score |-> 0, meta |-> BuildMeta(r)]

\* col.query(query_embeddings, n_results=topK, where): at most topK distinct
\* records that satisfy the where filter, nearest first.
QueryResults(col, bot, group, topK) ==
    LET matching == {r \in col : MatchesWhere(r, bot, group)}
    IN UNION { { LET hs == SetToSeq(H)
                 IN StableSort([i \in DOMAIN hs |-> HitChunk(hs[i], d[hs[i]])],
                               [i \in DOMAIN hs |-> d[hs[i]]])
                 : d \in [H -> DistSet] }
               : H \in {X \in SUBSET matching : Cardinality(X) <= topK} }

\* doc_to_target_orders[doc]: order_index + d, d in -radius..radius, d # 0, over
\* the base hits of doc that carry an order_index
TargetOrders(base, doc, radius) ==
    UNION { {base[i].meta.order_index + d : d \in ((0 - radius)..radius) \ {0}}
            : i \in {j \in DOMAIN base : base[j].meta.document_id = doc /\ base[j].meta.has_oi} }

\* The keys of doc_to_target_orders in insertion order
TargetDocs(base) ==
    LET docs == {base[i].meta.document_id : i \in {j \in DOMAIN base : base[j].meta.has_oi}}
        first(d) == Min({i \in DOMAIN base : base[i].meta.document_id = d /\ base[i].meta.has_oi}, 0)
    IN [r \in 1..Cardinality(docs) |->
          CHOOSE d \in docs : Cardinality({e \in docs : first(e) < first(d)}) = r - 1]

\* Mutant of GetRange: the where clause lacks the document_id condition
GetRange_NoDocFilter(col, doc, lo, hi) ==
    SetToSeq({r \in col : r.has_oi /\ r.order_index >= lo /\ r.order_index <= hi})

\* col.get(where document_id = doc, min_idx <= order_index <= max_idx)
GetRange(col, doc, lo, hi) ==
    SetToSeq({r \in col : r.document_id = doc /\ r.has_oi
                          /\ r.order_index >= lo /\ r.order_index <= hi})

\* The loop over one col.get result: keep records whose order_index is a
\* target and whose chunk id was not seen; returns the new seen_ids and chunks.
RECURSIVE ScanNeighbors(_, _, _, _)
ScanNeighbors(cands, orderSet, seen, acc) ==
    IF cands = <<>> THEN [seen |-> seen, out |-> acc]
    ELSE LET r == Head(cands)
         IN IF ~r.has_oi \/ r.order_index \notin orderSet
            THEN ScanNeighbors(Tail(cands), orderSet, seen, acc)
            ELSE IF r.chunk_id \in seen
            THEN ScanNeighbors(Tail(cands), orderSet, seen, acc)
            ELSE ScanNeighbors(Tail(cands), orderSet, seen \cup {r.chunk_id},
                               Append(acc, NeighborChunk(r)))

\* The loop over doc_to_target_orders; a col.get that raises skips its document
RECURSIVE ExpandDocs(_, _, _, _, _, _, _)
ExpandDocs(docSeq, base, col, radius, failDocs, seen, acc) ==
    IF docSeq = <<>> THEN acc
    ELSE LET doc == Head(docSeq)
             orderSet == TargetOrders(base, doc, radius)
         IN IF doc \in failDocs
            THEN ExpandDocs(Tail(docSeq), base, col, radius, failDocs, seen, acc)
            ELSE LET got == ScanNeighbors(GetRange(col, doc, Min(orderSet, 0), Max(orderSet, 0)),
                                          orderSet, seen, acc)
                 IN ExpandDocs(Tail(docSeq), base, col, radius, failDocs, got.seen, got.out)

\* neighborChunks.sort(key = (document_id or "", order_index or -1))
SortNeighbors(nb) ==
    StableSort(nb, [i \in DOMAIN nb |->
                      DocRank[nb[i].meta.document_id] * 1000
                      + (IF nb[i].meta.has_oi THEN nb[i].meta.order_index ELSE 0 - 1)])

\* The neighbour chunks appended to the base hits
NeighborsOf(base, col, radius, failDocs) ==
    SortNeighbors(ExpandDocs(TargetDocs(base), base, col, radius, failDocs,
                             {base[i].chunk_id : i \in DOMAIN base}, <<>>))

\* searchTopKWithNeighbors after searchTopK returned base; colGone: the second
\* _tryGetCollection found no collection
WithNeighbors(base, col, radius, colGone, failDocs) ==
    IF base = <<>> \/ radius <= 0 THEN base
    ELSE IF colGone THEN base
    ELSE base \o NeighborsOf(base, col, radius, failDocs)

----------------------------------------------------------------------------
(* services/llm/client.py: callQwen and parseJson as seen by a caller *)

\* Ways an HTTP exchange with the LLM server ends: requests raises, the status
\* is not 200, the body is malformed (not JSON, or without
\* choices[0].message.content), or a content string is returned.
HttpOutcomes == {"transport_error", "non_200", "bad_body", "ok"}

\* callQwen raises RuntimeError unless the exchange yields a content string
CallQwenRaises(o) == o.http # "ok"

\* parseJson raises ValueError on content that holds no JSON object
ParseJsonRaises(o) == o.content = "not_json"

----------------------------------------------------------------------------
(* services/llm/queryRefine.py *)

\* Outcomes of the LLM task 1 exchange. For a JSON object: normalized_query
\* absent or given; filters a dict (or falsy) or another truthy value; meta
\* absent, a dict or another truthy value; meta.safety likewise; and
\* safety.block_required absent, true, false, null or a non-empty string.
Llm1Outcomes ==
    {[http |-> h, content |-> "-", nq |-> "-", filters |-> "-", meta |-> "-",
      safety |-> "-", block |-> "-"] : h \in HttpOutcomes \ {"ok"}}
    \cup {[http |-> "ok", content |-> "not_json", nq |-> "-", filters |-> "-",
           meta |-> "-", safety |-> "-", block |-> "-"]}
    \cup {o \in [http : {"ok"}, content : {"json"}, nq : {"absent", "given"},
                 filters : {"dict", "nondict"}, meta : {"absent", "dict", "nondict"},
                 safety : {"-", "absent", "dict", "nondict"},
                 block : {"-", "absent", "true", "false", "null", "string"}] :
            /\ (o.meta = "dict") = (o.safety # "-")
            /\ (o.safety = "dict") = (o.block # "-")
            /\ (o.nq = "given" => o.filters = "dict" /\ o.meta = "dict" /\ o.safety = "dict")}

NoNorm == [normalized_query |-> "-", keywords |-> "-", filters |-> "-",
           has_safety |-> FALSE, block_required |-> "-"]

\* Mutant of RefineQuery: the ValueError of parseJson is not caught
RefineQuery_ParseRaises(o) ==
    IF CallQwenRaises(o) THEN [raised |-> "RuntimeError", norm |-> NoNorm]
    ELSE IF ParseJsonRaises(o) THEN [raised |-> "ValueError", norm |-> NoNorm]
    ELSE IF o.filters = "nondict" \/ o.meta = "nondict"
    THEN [raised |-> "AttributeError", norm |-> NoNorm]
    ELSE [raised |-> "none",
          norm |-> [normalized_query |-> IF o.nq = "given" THEN "llm" ELSE "question",
                    keywords |-> "llm", filters |-> "llm", has_safety |-> TRUE,
                    block_required |-> IF o.safety = "dict" /\ o.block # "absent"
                                       THEN o.block ELSE "false"]]

\* refineQuery: the exception it lets out ("none" when it returns) and the
\* QueryRefineResult it returns
RefineQuery(o) ==
    IF CallQwenRaises(o) THEN [raised |-> "RuntimeError", norm |-> NoNorm]
    ELSE IF ParseJsonRaises(o)
    THEN [raised |-> "none",
          norm |-> [normalized_query |-> "question", keywords |-> "empty",
                    filters |-> "default", has_safety |-> FALSE, block_required |-> "absent"]]
    ELSE IF o.filters = "nondict" \/ o.meta = "nondict"
    THEN [raised |-> "AttributeError", norm |-> NoNorm]
    ELSE [raised |-> "none",
          norm |-> [normalized_query |-> IF o.nq = "given" THEN "llm" ELSE "question",
                    keywords |-> "llm", filters |-> "llm", has_safety |-> TRUE,
                    block_required |-> IF o.safety = "dict" /\ o.block # "absent"
                                       THEN o.block ELSE "false"]]

\* Python truthiness of a block_required value
Truthy(v) == v \in {"true", "string"}

----------------------------------------------------------------------------
(* services/queryService.py helpers *)

\* Mutant of ConfidenceBelowMinimum: the minimum level is taken to be the
\* lowest one, so that no level of the order is below it
ConfidenceBelowMinimum_MinUnknown(level) ==
    IF IndexOf(CONFIDENCE_ORDER, level) = 0 THEN TRUE
    ELSE IndexOf(CONFIDENCE_ORDER, level) < IndexOf(CONFIDENCE_ORDER, "unknown")

\* Mutant of ConfidenceBelowMinimum: <= instead of <
ConfidenceBelowMinimum_OffByOne(level) ==
    IF IndexOf(CONFIDENCE_ORDER, level) = 0 THEN TRUE
    ELSE IndexOf(CONFIDENCE_ORDER, level) <= IndexOf(CONFIDENCE_ORDER, MIN_CONFIDENCE_LEVEL_FOR_ANSWER)

\* CONFIDENCE_ORDER.index(level) < CONFIDENCE_ORDER.index(minimum); a level
\* outside the order (ValueError) counts as below
ConfidenceBelowMinimum(level) ==
    IF IndexOf(CONFIDENCE_ORDER, level) = 0 THEN TRUE
    ELSE IndexOf(CONFIDENCE_ORDER, level) < IndexOf(CONFIDENCE_ORDER, MIN_CONFIDENCE_LEVEL_FOR_ANSWER)

\* Variant of EstimateRetrievalConfidence with > in place of >= for high
EstimateRetrievalConfidence_StrictHigh(maxScore) ==
    IF maxScore > HighThreshold THEN "high"
    ELSE IF maxScore >= MediumThreshold THEN "medium"
    ELSE IF maxScore >= LowThreshold THEN "low"
    ELSE "unknown"

EstimateRetrievalConfidence(maxScore) ==
    IF maxScore >= HighThreshold THEN "high"
    ELSE IF maxScore >= MediumThreshold THEN "medium"
    ELSE IF maxScore >= LowThreshold THEN "low"
    ELSE "unknown"

AnalyzeIntentAmbiguity(numChunks) ==
    IF numChunks = 0 THEN "high"
    ELSE IF numChunks <= 2 THEN "medium"
    ELSE "low"

\* sorted(chunks, key=score, reverse=True): stable, highest score first
SortByScoreDesc(cs) == StableSort(cs, [i \in DOMAIN cs |-> 0 - cs[i].score])

\* All image_paths entries of the chunks, in order
RECURSIVE ImageKeys(_)
ImageKeys(cs) == IF cs = <<>> THEN <<>>
                 ELSE Head(cs).meta.image_paths \o ImageKeys(Tail(cs))

\* The first occurrence of each element of s
RECURSIVE Dedup(_, _)
Dedup(s, seen) == IF s = <<>> THEN <<>>
                  ELSE IF Head(s) \in seen THEN Dedup(Tail(s), seen)
                  ELSE <<Head(s)>> \o Dedup(Tail(s), seen \cup {Head(s)})

\* _collectImagesFromChunks: one entry per distinct image key, with the ids
\* of the chunks that name it and its servable URL
CollectImagesFromChunks(cs) ==
    LET keys == Dedup(ImageKeys(cs), {})
    IN [i \in DOMAIN keys |->
          [image_key |-> keys[i], document_id |-> keys[i][1],
           url |-> <<"/pdf_images", keys[i]>>,
           related_chunk_ids |-> {cs[j].chunk_id :
                                    j \in {n \in DOMAIN cs : keys[i] \in Range(cs[n].meta.image_paths)}}]]

\* Variant of ContextChunksForLLM that keeps the score order of the chunks
ContextChunksForLLM_ScoreOrder(cs) == Take(cs, MAX_CONTEXT_CHUNKS_FOR_LLM)

\* chunksForLLM: positive scores first, then document id, then order_index
\* (10**9 when missing); the first MAX_CONTEXT_CHUNKS_FOR_LLM of them
ContextChunksForLLM(cs) ==
    Take(StableSort(cs, [i \in DOMAIN cs |->
                           (IF cs[i].score > 0 THEN 0 ELSE 1) * 100000000
                           + DocRank[cs[i].meta.document_id] * 1000000
                           + (IF cs[i].meta.has_oi THEN cs[i].meta.order_index ELSE 999999)]),
         MAX_CONTEXT_CHUNKS_FOR_LLM)

----------------------------------------------------------------------------
(* services/llm/answerGeneration.py *)

\* Chunk dicts an LLM task 2 answer may list as supporting_chunks although
\* they were never retrieved; not in score order
InventedChunks ==
    <<[chunk_id |-> <<"LLM", 1>>, text |-> <<"text", "LLM", 1>>, score |-> 300,
       meta |-> [document_id |-> "D3", chatbot_id |-> "bot2", has_oi |-> FALSE,
                 order_index |-> 0, image_paths |-> <<>>]],
      [chunk_id |-> <<"LLM", 2>>, text |-> <<"text", "LLM", 2>>, score |-> 900,
       meta |-> [document_id |-> "D3", chatbot_id |-> "bot2", has_oi |-> FALSE,
                 order_index |-> 0, image_paths |-> <<>>]]>>

\* Outcomes of the LLM task 2 exchange. For a JSON object: answer a non-empty
\* text or empty (absent, null, blank); meta absent, a dict that sets the
\* confidence fields, a dict that holds them as null, or a truthy non-dict;
\* supporting_chunks absent, a list of chunk objects, or anything else
\* (a list of non-objects, a string, a number).
Llm2Outcomes ==
    {[http |-> h, content |-> "-", answer |-> "-", meta |-> "-", supporting |-> "-"]
       : h \in HttpOutcomes \ {"ok"}}
    \cup {[http |-> "ok", content |-> "not_json", answer |-> "-", meta |-> "-", supporting |-> "-"]}
    \cup {[http |-> "ok", content |-> "json", answer |-> "empty", meta |-> "absent",
           supporting |-> "absent"]}
    \cup {o \in [http : {"ok"}, content : {"json"}, answer : {"text"},
                 meta : {"absent", "override", "nulls", "nondict"},
                 supporting : {"absent", "objects", "malformed"}] :
            o.meta = "absent" \/ o.supporting = "absent"}

NoLlm2 == [http |-> "-", content |-> "-", answer |-> "-", meta |-> "-", supporting |-> "-"]

NoAnswer == [answer |-> <<>>, supporting_chunks |-> <<>>,
             meta |-> [retrieval_confidence |-> "-", intent_ambiguity_level |-> "-",
                       need_clarification |-> FALSE]]

\* Mutant of FallbackAnswer: the answer is the text of the first chunk (the
\* assignment that the code overwrites), or a fixed text when there is none
FallbackAnswer_EchoChunk(cs, retrievalConfidence, intentAmbiguityLevel) ==
    [answer |-> IF Len(cs) > 0 THEN cs[1].text ELSE <<"NOT_FOUND">>,
     supporting_chunks |-> Take(SortByScoreDesc(cs), MAX_SUPPORTING_CHUNKS_IN_RESULT),
     meta |-> [retrieval_confidence |-> retrievalConfidence,
               intent_ambiguity_level |-> intentAmbiguityLevel,
               need_clarification |-> FALSE]]

\* _fallbackAnswer: the fixed apology, the top chunks by score, the meta as given.
\* An answer is a text: the apology, the refusal and the insufficient-evidence
\* message are fixed one-word texts, a chunk text is <<"text", doc, k>>.
FallbackAnswer(cs, retrievalConfidence, intentAmbiguityLevel) ==
    [answer |-> <<"APOLOGY">>,
     supporting_chunks |-> Take(SortByScoreDesc(cs), MAX_SUPPORTING_CHUNKS_IN_RESULT),
     meta |-> [retrieval_confidence |-> retrievalConfidence,
               intent_ambiguity_level |-> intentAmbiguityLevel,
               need_clarification |-> FALSE]]

\* generateAnswerWithContext: the exception it lets out ("none" when it
\* returns) and the AnswerResult it returns
GenerateAnswerWithContext(o, contextChunks, retrievalConfidence, intentAmbiguityLevel) ==
    IF CallQwenRaises(o) THEN [raised |-> "RuntimeError", answer |-> NoAnswer]
    ELSE IF ParseJsonRaises(o) \/ o.answer = "empty"
    THEN [raised |-> "none",
          answer |-> FallbackAnswer(contextChunks, retrievalConfidence, intentAmbiguityLevel)]
    ELSE IF o.meta = "nondict" \/ o.supporting = "malformed"
    THEN [raised |-> "AttributeError", answer |-> NoAnswer]
    ELSE LET rawCs == IF o.supporting = "objects" THEN InventedChunks ELSE contextChunks
         IN [raised |-> "none",
             answer |->
               [answer |-> <<"LLM_ANSWER">>,
                supporting_chunks |-> Take(SortByScoreDesc(rawCs), MAX_SUPPORTING_CHUNKS_IN_RESULT),
                meta |-> [retrieval_confidence |->
                            IF o.meta = "override" THEN "high"
                            ELSE IF o.meta = "nulls" THEN "unknown"
                            ELSE retrievalConfidence,
                          intent_ambiguity_level |->
                            IF o.meta = "override" THEN "low"
                            ELSE IF o.meta = "nulls" THEN "unknown"
                            ELSE intentAmbiguityLevel,
                          need_clarification |-> o.meta = "override"]]]

----------------------------------------------------------------------------
(* services/queryService.py: progressQuery, one action per stage *)

NoResult == [question |-> "-", normalized_query |-> "-", answer |-> <<>>,
             supporting_chunks |-> <<>>, retrieval_confidence |-> "-",
             intent_ambiguity_level |-> "-", need_clarification |-> FALSE,
             images |-> <<>>]

NoLlm == [http |-> "-", content |-> "-"]

\* Values of the ingestion variables while no ingestion run is modelled
MergeIdle == /\ mPc = "idle" /\ mPages = <<>> /\ mTexts = <<>> /\ mNext = 0 /\ mResp = <<>>
             /\ mResult = <<>> /\ mLog = <<>>
CleanIdle == /\ cPc = "idle" /\ cBlocks = <<>> /\ cResp = <<>> /\ cOut = <<>>
ChunkIdle == /\ kPc = "idle" /\ kArgs = <<>> /\ kPage = 0 /\ kText = <<>> /\ kStart = 0
             /\ kOrder = 0 /\ kChunks = <<>> /\ kWindows = <<>>
StoreIdle == sCol = <<>> /\ sWriter = <<>> /\ sLast = [op |-> "idle"]
FilterIdle == fPc = "idle" /\ fCands = <<>> /\ fI = 0 /\ fRemoved = {} /\ fOut = <<>>
EstimateIdle == ePc = "idle" /\ eScore = 0 /\ eBucket = "-"
UploadIdle == /\ uAvail = FALSE /\ uPc = "idle" /\ uStatus = "-" /\ uProc = "-"
              /\ uCause = "-" /\ uCol = <<>> /\ dPc = "idle"
ReaderIdle == rReader = 0 /\ rBuilt = 0 /\ rPc = <<>> /\ rLocal = <<>>
OcrIdle == oPc = "idle" /\ oPages = <<>> /\ oI = 0 /\ oSeen = <<>> /\ oBlocks = <<>>
LateIdle == UploadIdle /\ ReaderIdle /\ OcrIdle
OtherIdle == ChunkIdle /\ StoreIdle /\ FilterIdle /\ EstimateIdle /\ LateIdle

\* The user groups of the collection in the pipeline runs: chunk 1 of D1 was
\* upserted with the tag "internal", everything else with "default"
PipelineGroups == [sl \in Slots |-> IF sl = <<"D1", 1>> THEN "internal" ELSE "default"]

\* The run before its first step; the question is non-empty
QueryStart ==
    /\ pc = "REFINE"
    /\ llm1 = NoLlm /\ norm = NoNorm
    /\ baseChunks = <<>> /\ rawChunks = <<>> /\ chunks = <<>>
    /\ conf = "-" /\ ambiguity = "-" /\ context = <<>> /\ llm2 = NoLlm2
    /\ result = NoResult /\ raised = "none"
    /\ calls = <<>> /\ stages = <<>>

Init ==
    /\ store = StoreOf(PipelineGroups)
    /\ chatbotId \in {"bot1", "bot9"}
    /\ userGroup \in {NoGroup, "default"}
    /\ QueryStart
    /\ MergeIdle /\ CleanIdle /\ OtherIdle

\* 1) refineQuery (LLM task 1)
Refine ==
    /\ pc = "REFINE"
    /\ \E o \in Llm1Outcomes :
         LET r == RefineQuery(o)
         IN /\ llm1' = [http |-> o.http, content |-> o.content]
            /\ norm' = r.norm
            /\ raised' = r.raised
            /\ pc' = IF r.raised = "none" THEN "SAFETY_CHECK" ELSE "RAISED"
    /\ calls' = Append(calls, "llm1")
    /\ stages' = Append(stages, "REFINE")
    /\ UNCHANGED <<store, chatbotId, userGroup, baseChunks, rawChunks, chunks, conf,
                   ambiguity, context, llm2, result>>
    /\ UNCHANGED <<mvars, cvars, othervars>>

\* Mutant of BlockRequired: the flag is read from the top level of meta, where
\* it never is, instead of meta.safety
BlockRequired_WrongKey(n) == FALSE

\* blockRequired = bool(safetyMeta.get("block_required") or False)
BlockRequired(n) == n.has_safety /\ Truthy(n.block_required)

\* The QueryResult of a blocked run
BlockedResult(n) ==
    [question |-> "question", normalized_query |-> n.normalized_query,
     answer |-> <<"REFUSAL">>, supporting_chunks |-> <<>>,
     retrieval_confidence |-> "blocked", intent_ambiguity_level |-> "high",
     need_clarification |-> FALSE, images |-> <<>>]

\* The safety gate on the TASK 1 meta
SafetyCheck ==
    /\ pc = "SAFETY_CHECK"
    /\ IF BlockRequired(norm)
       THEN /\ result' = BlockedResult(norm)
            /\ pc' = "BLOCKED"
       ELSE /\ result' = result
            /\ pc' = "SEARCH"
    /\ stages' = Append(stages, "SAFETY_CHECK")
    /\ UNCHANGED <<store, chatbotId, userGroup, llm1, norm, baseChunks, rawChunks, chunks,
                   conf, ambiguity, context, llm2, raised, calls>>
    /\ UNCHANGED <<mvars, cvars, othervars>>

SearchFrame ==
    /\ stages' = Append(stages, "SEARCH")
    /\ UNCHANGED <<store, chatbotId, userGroup, llm1, norm, chunks, conf, ambiguity,
                   context, llm2, result>>
    /\ UNCHANGED <<mvars, cvars, othervars>>

\* 2) searchTopKWithNeighbors: _getClient raises (chromadb unusable)
SearchClientError ==
    /\ pc = "SEARCH"
    /\ raised' = "RuntimeError"
    /\ pc' = "RAISED"
    /\ UNCHANGED <<baseChunks, rawChunks, calls>>
    /\ SearchFrame

\* searchTopK finds no collection for the chatbot
SearchNoCollection ==
    /\ pc = "SEARCH"
    /\ chatbotId \notin DOMAIN store
    /\ baseChunks' = <<>> /\ rawChunks' = <<>>
    /\ pc' = "CONFIDENCE_GATE"
    /\ UNCHANGED <<raised, calls>>
    /\ SearchFrame

\* Variant of SearchEmbedError in which the failed embedding call is issued again
SearchEmbedError_Retry ==
    /\ pc = "SEARCH"
    /\ chatbotId \in DOMAIN store
    /\ baseChunks' = <<>> /\ rawChunks' = <<>>
    /\ calls' = calls \o <<"embed", "embed">>
    /\ pc' = "CONFIDENCE_GATE"
    /\ UNCHANGED raised
    /\ SearchFrame

\* embedText raises
SearchEmbedError ==
    /\ pc = "SEARCH"
    /\ chatbotId \in DOMAIN store
    /\ baseChunks' = <<>> /\ rawChunks' = <<>>
    /\ calls' = Append(calls, "embed")
    /\ pc' = "CONFIDENCE_GATE"
    /\ UNCHANGED raised
    /\ SearchFrame

\* col.query raises
SearchQueryError ==
    /\ pc = "SEARCH"
    /\ chatbotId \in DOMAIN store
    /\ baseChunks' = <<>> /\ rawChunks' = <<>>
    /\ calls' = calls \o <<"embed", "store_query">>
    /\ pc' = "CONFIDENCE_GATE"
    /\ UNCHANGED raised
    /\ SearchFrame

\* the top-K query answers; neighbours are fetched per document
SearchOk ==
    /\ pc = "SEARCH"
    /\ chatbotId \in DOMAIN store
    /\ \E base \in QueryResults(store[chatbotId], chatbotId, userGroup, MaxTopK) :
       \E colGone \in BOOLEAN :
       \E failDocs \in SUBSET Range(TargetDocs(base)) :
         /\ baseChunks' = base
         /\ rawChunks' = WithNeighbors(base, store[chatbotId], NeighborRadius, colGone, failDocs)
         /\ calls' = calls \o <<"embed", "store_query">>
                     \o (IF base = <<>> \/ colGone THEN <<>>
                         ELSE [i \in DOMAIN TargetDocs(base) |-> "store_get"])
    /\ pc' = "CONFIDENCE_GATE"
    /\ UNCHANGED raised
    /\ SearchFrame

Search == \/ SearchClientError
          \/ SearchNoCollection
          \/ SearchEmbedError
          \/ SearchQueryError
          \/ SearchOk

\* The QueryResult of a low-confidence run: every retrieved chunk and its images
LowConfidenceResult(n, cs, retrievalConfidence, intentAmbiguityLevel) ==
    [question |-> "question", normalized_query |-> n.normalized_query,
     answer |-> <<"INSUFFICIENT">>, supporting_chunks |-> cs,
     retrieval_confidence |-> retrievalConfidence,
     intent_ambiguity_level |-> intentAmbiguityLevel,
     need_clarification |-> FALSE, images |-> CollectImagesFromChunks(cs)]

\* 3) sort by score, estimate confidence and ambiguity, gate on the confidence
ConfidenceGate ==
    /\ pc = "CONFIDENCE_GATE"
    /\ LET cs == SortByScoreDesc(rawChunks)
           maxScore == Max({cs[i].score : i \in DOMAIN cs}, 0)
           rc == EstimateRetrievalConfidence(maxScore)
           ia == AnalyzeIntentAmbiguity(Len(cs))
       IN /\ chunks' = cs
          /\ conf' = rc
          /\ ambiguity' = ia
          /\ IF ConfidenceBelowMinimum(rc)
             THEN /\ result' = LowConfidenceResult(norm, cs, rc, ia)
                  /\ pc' = "LOW_CONFIDENCE"
             ELSE /\ result' = result
                  /\ pc' = "ANSWER_SYNTH"
    /\ stages' = Append(stages, "CONFIDENCE_GATE")
    /\ UNCHANGED <<store, chatbotId, userGroup, llm1, norm, baseChunks, rawChunks,
                   context, llm2, raised, calls>>
    /\ UNCHANGED <<mvars, cvars, othervars>>

\* The QueryResult assembled from an AnswerResult
AnsweredResult(n, a, imgs) ==
    [question |-> "question", normalized_query |-> n.normalized_query,
     answer |-> a.answer, supporting_chunks |-> a.supporting_chunks,
     retrieval_confidence |-> a.meta.retrieval_confidence,
     intent_ambiguity_level |-> a.meta.intent_ambiguity_level,
     need_clarification |-> a.meta.need_clarification, images |-> imgs]

\* 4) + 5) build the LLM context and generate the answer (LLM task 2)
AnswerSynth ==
    /\ pc = "ANSWER_SYNTH"
    /\ LET ctx == ContextChunksForLLM(chunks)
       IN /\ context' = ctx
          /\ \E o \in Llm2Outcomes :
               LET r == GenerateAnswerWithContext(o, ctx, conf, ambiguity)
               IN /\ llm2' = o
                  /\ raised' = r.raised
                  /\ IF r.raised = "none"
                     THEN /\ result' = AnsweredResult(norm, r.answer, CollectImagesFromChunks(ctx))
                          /\ pc' = "ANSWERED"
                     ELSE /\ result' = result
                          /\ pc' = "RAISED"
    /\ calls' = Append(calls, "llm2")
    /\ stages' = Append(stages, "ANSWER_SYNTH")
    /\ UNCHANGED <<store, chatbotId, userGroup, llm1, norm, baseChunks, rawChunks, chunks,
                   conf, ambiguity>>
    /\ UNCHANGED <<mvars, cvars, othervars>>

Next == \/ Refine
        \/ SafetyCheck
        \/ Search
        \/ ConfidenceGate
        \/ AnswerSynth

Spec == Init /\ [][Next]_vars

----------------------------------------------------------------------------
(* The search stage alone, over every assignment of user groups to the      *)
(* chunks of the collection and every userGroup argument                    *)

\* A run that has passed REFINE and SAFETY_CHECK with the fallback refinement
InitSearch ==
    /\ \E g \in [Slots -> Groups] : store = StoreOf(g)
    /\ chatbotId \in {"bot1", "bot9"}
    /\ userGroup \in Groups \cup {NoGroup}
    /\ pc = "SEARCH"
    /\ llm1 = [http |-> "ok", content |-> "not_json"]
    /\ norm = [normalized_query |-> "question", keywords |-> "empty",
               filters |-> "default", has_safety |-> FALSE, block_required |-> "absent"]
    /\ baseChunks = <<>> /\ rawChunks = <<>> /\ chunks = <<>>
    /\ conf = "-" /\ ambiguity = "-" /\ context = <<>> /\ llm2 = NoLlm2
    /\ result = NoResult /\ raised = "none"
    /\ calls = <<"llm1">> /\ stages = <<"REFINE", "SAFETY_CHECK">>
    /\ MergeIdle /\ CleanIdle /\ OtherIdle

NextSearch == Search

SpecSearch == InitSearch /\ [][NextSearch]_vars

----------------------------------------------------------------------------
(* The answer stage alone, over retrieved lists long enough for the caps on *)
(* the LLM context and on the supporting chunks to bind                     *)

\* largest number of retrieved chunks at the confidence gate
MaxChunks == 11

\* The i-th retrieved chunk: a hit at the given distance, or a neighbour
\* (negative distance); documents alternate, every third chunk has no
\* order_index
AnswerChunk(i, dist) ==
    LET r == StoreRecord("bot1", IF i % 2 = 1 THEN "D1" ELSE "D2", i, i % 3 # 0, "default")
    IN IF dist < 0 THEN NeighborChunk(r) ELSE HitChunk(r, dist)

\* A run that has passed the gate: a hits at distance 0.1, b hits at distance
\* 1.0, then neighbours
InitAnswer ==
    /\ store = StoreOf(PipelineGroups)
    /\ chatbotId = "bot1" /\ userGroup = NoGroup
    /\ llm1 = [http |-> "ok", content |-> "not_json"]
    /\ norm = [normalized_query |-> "question", keywords |-> "empty",
               filters |-> "default", has_safety |-> FALSE, block_required |-> "absent"]
    /\ \E n \in 1..MaxChunks : \E a \in 0..n : \E b \in 0..(n - a) :
          /\ a + b >= 1
          /\ rawChunks = [i \in 1..n |->
                            AnswerChunk(i, IF i <= a THEN 10 ELSE IF i <= a + b THEN 100 ELSE 0 - 1)]
          /\ baseChunks = SubSeq(rawChunks, 1, a + b)
    /\ chunks = SortByScoreDesc(rawChunks)
    /\ conf = EstimateRetrievalConfidence(Max({chunks[i].score : i \in DOMAIN chunks}, 0))
    /\ ambiguity = AnalyzeIntentAmbiguity(Len(chunks))
    /\ pc = "ANSWER_SYNTH"
    /\ context = <<>> /\ llm2 = NoLlm2 /\ result = NoResult /\ raised = "none"
    /\ calls = <<"llm1", "embed", "store_query", "store_get">>
    /\ stages = <<"REFINE", "SAFETY_CHECK", "SEARCH", "CONFIDENCE_GATE">>
    /\ MergeIdle /\ CleanIdle /\ OtherIdle

NextAnswer == AnswerSynth

SpecAnswer == InitAnswer /\ [][NextAnswer]_vars

----------------------------------------------------------------------------
(* Text. A string is a sequence of tokens: a word, or one of the whitespace *)
(* characters "SP" (space) and "NL" (newline).                              *)

Whitespace == {"SP", "NL"}

RECURSIVE LStrip(_)
LStrip(t) == IF Len(t) > 0 /\ t[1] \in Whitespace THEN LStrip(Tail(t)) ELSE t

RECURSIVE RStrip(_)
RStrip(t) ==
    IF Len(t) > 0 /\ t[Len(t)] \in Whitespace THEN RStrip(SubSeq(t, 1, Len(t) - 1)) ELSE t

\* str.strip()
Strip(t) == RStrip(LStrip(t))

\* "\n".join(texts)
RECURSIVE JoinLines(_)
JoinLines(texts) ==
    IF Len(texts) = 0 THEN <<>>
    ELSE IF Len(texts) = 1 THEN texts[1]
    ELSE texts[1] \o <<"NL">> \o JoinLines(Tail(texts))

\* The words of a text
Words(t) == {t[i] : i \in DOMAIN t} \ Whitespace

\* sorted() of a set of integers
SortedSeq(S) ==
    [r \in 1..Cardinality(S) |-> CHOOSE x \in S : Cardinality({y \in S : y < x}) = r - 1]

\* d.get(k, "") and d.get(k, [])
Get(d, k) == IF k \in DOMAIN d THEN d[k] ELSE <<>>

\* Values of the query variables while no query run is modelled
QueryIdle ==
    /\ pc = "idle" /\ store = <<>> /\ chatbotId = "-" /\ userGroup = NoGroup
    /\ llm1 = NoLlm /\ norm = NoNorm
    /\ baseChunks = <<>> /\ rawChunks = <<>> /\ chunks = <<>>
    /\ conf = "-" /\ ambiguity = "-" /\ context = <<>> /\ llm2 = NoLlm2
    /\ result = NoResult /\ raised = "none"
    /\ calls = <<>> /\ stages = <<>>

----------------------------------------------------------------------------
(* services/llm/secondRefine.py *)

\* largest page number of the document handed to mergeText
MaxPages == 2
\* largest number of native blocks on a page (a page has one OCR block or none)
MaxBlocks == 2

\* Blocks of a page that carry text after strip()
BlocksOfPage(blocks, p) ==
    SelectSeq(blocks, LAMBDA tb : tb.page = p /\ Len(Strip(tb.text)) > 0)

TextsOfPage(blocks, p) ==
    LET b == BlocksOfPage(blocks, p)
    IN IF Len(b) = 0 THEN <<>> ELSE [i \in 1..Len(b) |-> Strip(b[i].text)]

IdsOfPage(blocks, p) ==
    LET b == BlocksOfPage(blocks, p)
    IN IF Len(b) = 0 THEN <<>> ELSE [i \in 1..Len(b) |-> b[i].block_id]

PagesWithText(blocks) ==
    {blocks[i].page : i \in {j \in DOMAIN blocks : Len(Strip(blocks[j].text)) > 0}}

\* _buildPageTexts: page -> joined native text, page -> joined OCR text,
\* page -> source block ids (native first). blocks_by_page only feeds the
\* request payload and is left out.
BuildPageTexts(extraction, ocrBlocks) ==
    [pymupdf_texts |->
        [p \in PagesWithText(extraction) |-> Strip(JoinLines(TextsOfPage(extraction, p)))],
     ocr_texts |->
        [p \in PagesWithText(ocrBlocks) |-> Strip(JoinLines(TextsOfPage(ocrBlocks, p)))],
     src_ids_by_page |->
        [p \in PagesWithText(extraction) \cup PagesWithText(ocrBlocks) |->
            IdsOfPage(extraction, p) \o IdsOfPage(ocrBlocks, p)]]

\* merged_blocks lists returned by LLM task 3, with the merge_log sent along.
\* An entry is a JSON object or a bare string; the text of an object is the
\* page's native text, native+OCR text, a text with added padding, a text
\* found in neither source, blank, or null; its src_block_ids is every id of
\* the page, a single id not in a list, or absent.
Entry(kind, text, src) == [kind |-> kind, text |-> text, src |-> src]

Task3Lists ==
    { [entries |-> <<Entry("string", "-", "-")>>, log |-> "absent"],
      [entries |-> <<Entry("object", "blank", "all")>>, log |-> "present"],
      [entries |-> <<Entry("object", "null", "absent")>>, log |-> "absent"],
      [entries |-> <<Entry("object", "both", "all")>>, log |-> "absent"],
      [entries |-> <<Entry("object", "padded", "all")>>, log |-> "present"],
      [entries |-> <<Entry("object", "invented", "scalar")>>, log |-> "present"],
      [entries |-> <<Entry("object", "blank", "all"), Entry("object", "native", "absent")>>,
       log |-> "absent"],
      [entries |-> <<Entry("object", "native", "all"), Entry("string", "-", "-")>>,
       log |-> "present"] }

\* Outcomes of the LLM task 3 exchange for one page
Task3Outcomes ==
    {[http |-> h, content |-> "-", mb |-> "-", merged_blocks |-> <<>>, merge_log |-> "-"] :
        h \in HttpOutcomes \ {"ok"}}
    \cup {[http |-> "ok", content |-> "not_json", mb |-> "-", merged_blocks |-> <<>>,
           merge_log |-> "-"]}
    \cup {[http |-> "ok", content |-> "json", mb |-> k, merged_blocks |-> <<>>,
           merge_log |-> "absent"] : k \in {"absent", "not_list", "empty"}}
    \cup {[http |-> "ok", content |-> "json", mb |-> "list", merged_blocks |-> l.entries,
           merge_log |-> l.log] : l \in Task3Lists}

NoTask3 == [http |-> "-", content |-> "-", mb |-> "-", merged_blocks |-> <<>>,
            merge_log |-> "-"]

\* _runTask3ForPage returns None: nothing to send, the call failed, the
\* content did not parse, or merged_blocks is not a non-empty list
RunTask3ForPageIsNone(o, pymupdf_text, ocr_text_cleaned) ==
    \/ (Len(pymupdf_text) = 0 /\ Len(ocr_text_cleaned) = 0)
    \/ CallQwenRaises(o)
    \/ ParseJsonRaises(o)
    \/ o.mb # "list"

\* Mutant of FallbackMergePage: the OCR text is dropped when there is native text
FallbackMergePage_NativeOnly(pymupdf_text, ocr_text_cleaned) ==
    LET pym == Strip(pymupdf_text)
        ocr == Strip(ocr_text_cleaned)
    IN IF Len(pym) > 0 THEN pym ELSE ocr

\* _fallbackMergePage: pym + "\n" + ocr, or the one that is not empty
FallbackMergePage(pymupdf_text, ocr_text_cleaned) ==
    LET pym == Strip(pymupdf_text)
        ocr == Strip(ocr_text_cleaned)
    IN IF Len(pym) > 0 /\ Len(ocr) > 0 THEN pym \o <<"NL">> \o ocr
       ELSE IF Len(pym) > 0 THEN pym
       ELSE IF Len(ocr) > 0 THEN ocr
       ELSE <<>>

\* blk.get("text") or "" for an entry of merged_blocks
EntryText(e, pym_text, ocr_text) ==
    CASE e.text = "native" -> pym_text
      [] e.text = "both" -> FallbackMergePage(pym_text, ocr_text)
      [] e.text = "padded" -> <<"SP">> \o FallbackMergePage(pym_text, ocr_text) \o <<"NL">>
      [] e.text = "invented" -> <<"zeta">>
      [] e.text = "blank" -> <<"SP">>
      [] OTHER -> <<>>

\* src_ids built from blk.get("src_block_ids") or []
EntrySrcIds(e, src_ids) ==
    CASE e.src = "all" -> src_ids
      [] e.src = "scalar" -> <<src_ids[1]>>
      [] OTHER -> <<>>

MergedTextBlock(page, m, text, src_block_ids, debug_log) ==
    [page |-> page, block_id |-> [page |-> page, m |-> m], text |-> text,
     src_block_ids |-> src_block_ids, debug_log |-> debug_log]

\* The loop over enumerate(merged_blocks) from entry idx on: blk.get raises
\* AttributeError on an entry that is not an object; an entry whose stripped
\* text is empty is skipped
RECURSIVE Task3Blocks(_, _, _, _, _, _, _)
Task3Blocks(entries, idx, page, pym_text, ocr_text, src_ids, merge_log) ==
    IF idx > Len(entries) THEN [raised |-> FALSE, blocks |-> <<>>]
    ELSE IF entries[idx].kind # "object" THEN [raised |-> TRUE, blocks |-> <<>>]
    ELSE
        LET text == Strip(EntryText(entries[idx], pym_text, ocr_text))
            rest == Task3Blocks(entries, idx + 1, page, pym_text, ocr_text, src_ids, merge_log)
            blk == MergedTextBlock(page, idx, text, EntrySrcIds(entries[idx], src_ids),
                                   IF merge_log = "present" THEN "merge_log" ELSE "None")
        IN IF rest.raised THEN rest
           ELSE IF Len(text) = 0 THEN rest
           ELSE [raised |-> FALSE, blocks |-> <<blk>> \o rest.blocks]

\* One iteration of the loop of mergeText for a page and an LLM outcome:
\* whether it raises, whether the fallback is taken, and result[page]
MergePage(page, o, texts) ==
    LET pym_text == Get(texts.pymupdf_texts, page)
        ocr_text == Get(texts.ocr_texts, page)
        src_ids == Get(texts.src_ids_by_page, page)
        task3 == IF RunTask3ForPageIsNone(o, pym_text, ocr_text)
                 THEN [raised |-> FALSE, blocks |-> <<>>]
                 ELSE Task3Blocks(o.merged_blocks, 1, page, pym_text, ocr_text, src_ids,
                                  o.merge_log)
        merged_text == Strip(FallbackMergePage(pym_text, ocr_text))
    IN IF task3.raised THEN [raised |-> TRUE, fallback |-> FALSE, blocks |-> <<>>]
       ELSE IF Len(task3.blocks) > 0
       THEN [raised |-> FALSE, fallback |-> FALSE, blocks |-> task3.blocks]
       ELSE [raised |-> FALSE, fallback |-> TRUE,
             blocks |-> IF Len(merged_text) = 0 THEN <<>>
                        ELSE <<MergedTextBlock(page, 1, merged_text, src_ids, "None")>>]

(* The arguments of mergeText. Block texts are non-empty and stripped, as  *)
(* extractPDF, runOCR and cleanOcrTextBlocks produce them.                  *)

NativeText(k) == IF k = 1 THEN <<"alpha">> ELSE <<"beta", "SP", "gamma">>
OcrText(k) == IF k = 1 THEN <<"alpha">> ELSE <<"omega">>

TextBlock(source, p, k) ==
    [page |-> p, block_id |-> [source |-> source, page |-> p, n |-> k],
     text |-> IF source = "pymupdf" THEN NativeText(k) ELSE OcrText(k)]

\* The blocks of pages p..MaxPages in page order, count[p] blocks on page p
RECURSIVE BlockList(_, _, _)
BlockList(source, count, p) ==
    IF p > MaxPages THEN <<>>
    ELSE (IF count[p] = 0 THEN <<>> ELSE [k \in 1..count[p] |-> TextBlock(source, p, k)])
         \o BlockList(source, count, p + 1)

\* sorted(all_pages)
MergeAllPages == SortedSeq(DOMAIN mTexts.pymupdf_texts \cup DOMAIN mTexts.ocr_texts)

InitMerge ==
    /\ QueryIdle /\ CleanIdle /\ OtherIdle
    /\ \E cn \in [1..MaxPages -> 0..MaxBlocks], co \in [1..MaxPages -> 0..1] :
           mPages = [extraction |-> BlockList("pymupdf", cn, 1),
                     ocrBlocks |-> BlockList("ocr", co, 1)]
    /\ mTexts = BuildPageTexts(mPages.extraction, mPages.ocrBlocks)
    /\ mPc = "loop" /\ mNext = 1 /\ mResp = NoTask3 /\ mResult = <<>> /\ mLog = <<>>

\* An iteration in which LLM task 3 supplies the blocks of the page
MergePageTask3 ==
    /\ mPc = "loop" /\ mNext <= Len(MergeAllPages)
    /\ LET page == MergeAllPages[mNext]
       IN \E o \in Task3Outcomes :
            LET out == MergePage(page, o, mTexts)
            IN /\ ~out.raised /\ ~out.fallback
               /\ mResp' = o
               /\ mResult' = mResult @@ (page :> out.blocks)
    /\ mNext' = mNext + 1
    /\ UNCHANGED <<mPc, mPages, mTexts, mLog, qvars, cvars, othervars>>

\* An iteration that takes the fallback; _fallbackMergePage logs a warning
MergePageFallback ==
    /\ mPc = "loop" /\ mNext <= Len(MergeAllPages)
    /\ LET page == MergeAllPages[mNext]
       IN \E o \in Task3Outcomes :
            LET out == MergePage(page, o, mTexts)
            IN /\ ~out.raised /\ out.fallback
               /\ mResp' = o
               /\ mResult' = mResult @@ (page :> out.blocks)
               /\ mLog' = Append(mLog, [page |-> page, warning |-> "fallback"])
    /\ mNext' = mNext + 1
    /\ UNCHANGED <<mPc, mPages, mTexts, qvars, cvars, othervars>>

\* An iteration in which blk.get raises; the exception leaves mergeText
MergePageRaise ==
    /\ mPc = "loop" /\ mNext <= Len(MergeAllPages)
    /\ LET page == MergeAllPages[mNext]
       IN \E o \in Task3Outcomes :
            /\ MergePage(page, o, mTexts).raised
            /\ mResp' = o
    /\ mPc' = "raised"
    /\ UNCHANGED <<mPages, mTexts, mNext, mResult, mLog, qvars, cvars, othervars>>

\* The loop is over: return result
MergeReturn ==
    /\ mPc = "loop" /\ mNext > Len(MergeAllPages)
    /\ mPc' = "done"
    /\ UNCHANGED <<mPages, mTexts, mNext, mResp, mResult, mLog, qvars, cvars, othervars>>

NextMerge == MergePageTask3 \/ MergePageFallback \/ MergePageRaise \/ MergeReturn

SpecMerge == InitMerge /\ [][NextMerge]_vars

----------------------------------------------------------------------------
(* services/llm/firstRefine.py *)

\* largest number of TextBlocks handed to cleanOcrTextBlocks
MaxCleanBlocks == 2

\* Outcomes of the LLM task 0 exchange for one block. For a JSON object the
\* value of cleaned_text is absent, "", blank, null, a text different from the
\* input, or such a text with padding around it.
Task0Outcomes ==
    {[http |-> h, content |-> "-", cleaned_text |-> "-"] : h \in HttpOutcomes \ {"ok"}}
    \cup {[http |-> "ok", content |-> "not_json", cleaned_text |-> "-"]}
    \cup {[http |-> "ok", content |-> "json", cleaned_text |-> c] :
            c \in {"absent", "empty", "blank", "null", "text", "padded"}}

NoTask0 == [http |-> "-", content |-> "-", cleaned_text |-> "-"]

\* str(data.get("cleaned_text", "")): the default is "", str(None) is "None"
CleanedTextStr(o) ==
    CASE o.cleaned_text = "blank" -> <<"SP", "NL">>
      [] o.cleaned_text = "null" -> <<"None">>
      [] o.cleaned_text = "text" -> <<"alpha", "SP", "beta">>
      [] o.cleaned_text = "padded" -> <<"SP", "alpha", "SP", "beta", "NL">>
      [] OTHER -> <<>>

\* _safeCleanText
SafeCleanText(raw_text, o) ==
    IF Len(Strip(raw_text)) = 0 THEN raw_text
    ELSE IF CallQwenRaises(o) THEN raw_text
    ELSE IF ParseJsonRaises(o) THEN raw_text
    ELSE LET cleaned == Strip(CleanedTextStr(o))
         IN IF Len(cleaned) = 0 THEN raw_text ELSE cleaned

\* Texts of the input blocks: empty, blank, one word, and a text with
\* doubled spacing and whitespace at both ends
RawTexts == {<<>>, <<"SP">>, <<"alpha">>, <<"SP", "alpha", "SP", "SP", "beta", "NL">>}

OcrBlock(i, text) == [page |-> 1, block_id |-> i, text |-> text, prob |-> 90 + i]

InitClean ==
    /\ QueryIdle /\ MergeIdle /\ OtherIdle
    /\ \E n \in 0..MaxCleanBlocks : \E t \in [1..n -> RawTexts] :
           cBlocks = [i \in 1..n |-> OcrBlock(i, t[i])]
    /\ cPc = "loop" /\ cResp = NoTask0 /\ cOut = <<>>

\* An iteration for a block without content: appended as it is, no LLM call
CleanSkipEmpty ==
    /\ cPc = "loop" /\ Len(cOut) < Len(cBlocks)
    /\ LET block == cBlocks[Len(cOut) + 1]
       IN /\ Len(Strip(block.text)) = 0
          /\ cOut' = Append(cOut, block)
    /\ cResp' = NoTask0
    /\ UNCHANGED <<cPc, cBlocks, qvars, mvars, othervars>>

\* An iteration for a block with content: text replaced by _safeCleanText's
CleanBlock ==
    /\ cPc = "loop" /\ Len(cOut) < Len(cBlocks)
    /\ LET block == cBlocks[Len(cOut) + 1]
       IN /\ Len(Strip(block.text)) > 0
          /\ \E o \in Task0Outcomes :
                /\ cOut' = Append(cOut, [block EXCEPT !.text = SafeCleanText(block.text, o)])
                /\ cResp' = o
    /\ UNCHANGED <<cPc, cBlocks, qvars, mvars, othervars>>

\* return blocks (empty input) or return cleaned_blocks
CleanReturn ==
    /\ cPc = "loop" /\ Len(cOut) = Len(cBlocks)
    /\ cPc' = "done"
    /\ UNCHANGED <<cBlocks, cResp, cOut, qvars, mvars, othervars>>

NextClean == CleanSkipEmpty \/ CleanBlock \/ CleanReturn

SpecClean == InitClean /\ [][NextClean]_vars

----------------------------------------------------------------------------
(* services/embedding/chunking.py *)
(* A page text is a sequence of characters; "SP" and "NL" are whitespace.   *)

\* longest text of a MergedTextBlock handed to chunkMergedPages
MaxTextLen == 4
\* largest maxChars, and largest overlap, handed to chunkMergedPages
MaxM == 3
\* chunks after which a run is no longer followed
MaxWindows == 6

\* the variables of the runs other than the chunkMergedPages run
nonChunk == <<qvars, mvars, cvars, svars, fvars, evars, latevars>>

\* "\n\n".join(texts)
RECURSIVE JoinParagraphs(_)
JoinParagraphs(texts) ==
    IF Len(texts) = 0 THEN <<>>
    ELSE IF Len(texts) = 1 THEN texts[1]
    ELSE texts[1] \o <<"NL", "NL">> \o JoinParagraphs(Tail(texts))

\* The stripped, non-empty block texts of a page, in order
RECURSIVE StrippedTexts(_)
StrippedTexts(blocks) ==
    IF Len(blocks) = 0 THEN <<>>
    ELSE IF Len(Strip(blocks[1].text)) = 0 THEN StrippedTexts(Tail(blocks))
    ELSE <<Strip(blocks[1].text)>> \o StrippedTexts(Tail(blocks))

\* _buildPageText
BuildPageText(blocks) == Strip(JoinParagraphs(StrippedTexts(blocks)))

\* text[start:end], indices from 0, end exclusive
Slice(text, start, end) == SubSeq(text, start + 1, end)

\* end = min(start + maxChars, length)
WindowEnd(start, maxChars, length) ==
    IF start + maxChars < length THEN start + maxChars ELSE length

\* Mutant of NextStart: the next window starts where the last one ended
NextStart_NoOverlap(end, overlap) == end

\* start = end - overlap, not below 0
NextStart(end, overlap) == IF end - overlap < 0 THEN 0 ELSE end - overlap

\* The TextChunk of a window
TextChunk(documentId, page, order, chunkText) ==
    [chunk_id |-> [document_id |-> documentId, page |-> page, c |-> order],
     text |-> chunkText, page |-> page, order |-> order,
     meta |-> [page |-> page, document_id |-> documentId, chatbot_id |-> "bot1",
               user_group_tags |-> <<"default">>, process_tag |-> "body",
               chunk_order |-> order]]

\* Block texts: every text of up to MaxTextLen characters over a, b and space
ChunkAlphabet == {"a", "b", "SP"}
BlockTexts == UNION {[1..n -> ChunkAlphabet] : n \in 0..MaxTextLen}

MergedBlock(page, m, text) == MergedTextBlock(page, m, text, <<>>, "None")

\* The mergedPages arguments: page 2 with one block; page 2 with that block
\* and a second one; pages 2 and 1, page 1 with a fixed text
MergedPagesOf(text, shape) ==
    CASE shape = "one_block" -> (2 :> <<MergedBlock(2, 1, text)>>)
      [] shape = "two_blocks" ->
            (2 :> <<MergedBlock(2, 1, text), MergedBlock(2, 2, <<"b", "a">>)>>)
      [] OTHER ->
            (2 :> <<MergedBlock(2, 1, text)>>)
            @@ (1 :> <<MergedBlock(1, 1, <<"a", "SP", "b", "a">>)>>)

\* sorted(mergedPages.keys())
ChunkPages == SortedSeq(DOMAIN kArgs.mergedPages)

InitChunk ==
    /\ QueryIdle /\ MergeIdle /\ CleanIdle /\ StoreIdle /\ FilterIdle /\ EstimateIdle /\ LateIdle
    /\ \E text \in BlockTexts, shape \in {"one_block", "two_blocks", "two_pages"},
          m \in 0..MaxM, o \in (0 - 1)..MaxM :
          kArgs = [mergedPages |-> MergedPagesOf(text, shape), documentId |-> "D1",
                   maxChars |-> m, overlap |-> o]
    /\ kPc = "check" /\ kPage = 0 /\ kText = <<>> /\ kStart = 0 /\ kOrder = 0
    /\ kChunks = <<>> /\ kWindows = <<>>

\* maxChars <= 0 or overlap < 0: ValueError
ChunkReject ==
    /\ kPc = "check"
    /\ kArgs.maxChars <= 0 \/ kArgs.overlap < 0
    /\ kPc' = "rejected"
    /\ UNCHANGED <<kArgs, kPage, kText, kStart, kOrder, kChunks, kWindows, nonChunk>>

\* the arguments pass the two checks; the loop over the pages starts
ChunkAccept ==
    /\ kPc = "check"
    /\ kArgs.maxChars > 0 /\ kArgs.overlap >= 0
    /\ kPc' = "pages" /\ kPage' = 1
    /\ UNCHANGED <<kArgs, kText, kStart, kOrder, kChunks, kWindows, nonChunk>>

\* the next page: skipped when its text is empty, else _chunkPageText starts
ChunkPage ==
    /\ kPc = "pages" /\ kPage <= Len(ChunkPages)
    /\ LET pageText == BuildPageText(kArgs.mergedPages[ChunkPages[kPage]])
           text == Strip(pageText)
       IN IF Len(text) = 0
          THEN /\ kPage' = kPage + 1
               /\ UNCHANGED <<kPc, kText, kStart, kOrder>>
          ELSE /\ kPc' = "window" /\ kText' = text /\ kStart' = 0 /\ kOrder' = 0
               /\ UNCHANGED kPage
    /\ UNCHANGED <<kArgs, kChunks, kWindows, nonChunk>>

\* an iteration of the while loop whose window holds only whitespace: break
ChunkWindowBlank ==
    /\ kPc = "window" /\ kStart < Len(kText) /\ Len(kChunks) < MaxWindows
    /\ LET end == WindowEnd(kStart, kArgs.maxChars, Len(kText))
       IN Len(Strip(Slice(kText, kStart, end))) = 0
    /\ kPc' = "pages" /\ kPage' = kPage + 1
    /\ UNCHANGED <<kArgs, kText, kStart, kOrder, kChunks, kWindows, nonChunk>>

\* an iteration that appends a chunk and goes on, or ends the page when the
\* window reaches the end of the text
ChunkWindow ==
    /\ kPc = "window" /\ kStart < Len(kText) /\ Len(kChunks) < MaxWindows
    /\ LET end == WindowEnd(kStart, kArgs.maxChars, Len(kText))
           chunkText == Strip(Slice(kText, kStart, end))
           page == ChunkPages[kPage]
       IN /\ Len(chunkText) > 0
          /\ kChunks' = Append(kChunks, TextChunk(kArgs.documentId, page, kOrder, chunkText))
          /\ kWindows' = Append(kWindows, [page |-> page, start |-> kStart, end |-> end])
          /\ IF end >= Len(kText)
             THEN /\ kPc' = "pages" /\ kPage' = kPage + 1
                  /\ UNCHANGED <<kStart, kOrder>>
             ELSE /\ kStart' = NextStart(end, kArgs.overlap)
                  /\ kOrder' = kOrder + 1
                  /\ UNCHANGED <<kPc, kPage>>
    /\ UNCHANGED <<kArgs, kText, nonChunk>>

\* every page was handled: return allChunks
ChunkReturn ==
    /\ kPc = "pages" /\ kPage > Len(ChunkPages)
    /\ kPc' = "done"
    /\ UNCHANGED <<kArgs, kPage, kText, kStart, kOrder, kChunks, kWindows, nonChunk>>

NextChunk ==
    ChunkReject \/ ChunkAccept \/ ChunkPage \/ ChunkWindowBlank \/ ChunkWindow \/ ChunkReturn

SpecChunk == InitChunk /\ [][NextChunk]_vars

----------------------------------------------------------------------------
(* services/retrieval/store.py (upsertChunks) and                           *)
(* services/retrieval/delete.py (deleteChunksByDocument)                    *)
(* A collection maps a record id to its document and metadata. Ids are      *)
(* tuples: <<"c1">> is the string "c1", <<"D1", 0>> the string "D1_0".      *)

\* largest number of chunks in one upsertChunks call
MaxBatch == 2
\* largest number of records held by all collections together
MaxRecords == 2

\* the variables of the runs other than the vector store operations
nonStore == <<qvars, mvars, cvars, kvars, fvars, evars, latevars>>

StoreDocs == {"D1", "D2"}
NoChunkId == <<>>

\* metadata a caller may hand over: nothing of note, or values of its own
\* under the three reserved keys together with a list of user group tags
PlainMeta == [page |-> 1]
HostileMeta == [chunk_id |-> <<"x">>, chatbot_id |-> "botX", document_id |-> "DX",
                user_group_tags |-> <<"internal", "default">>]

\* the chunk dicts of a call: without chunk_id, or with chunk_id "c1"
ChunkInputs == {[chunk_id |-> NoChunkId, text |-> <<"t">>, meta |-> HostileMeta],
                [chunk_id |-> <<"c1">>, text |-> <<"t">>, meta |-> HostileMeta],
                [chunk_id |-> <<"c1">>, text |-> <<"t">>, meta |-> PlainMeta]}
ChunkBatches == UNION {[1..n -> ChunkInputs] : n \in 0..MaxBatch}

\* {**a, **b}: the keys of b win
DictMerge(a, b) == [k \in (DOMAIN a) \cup (DOMAIN b) |-> IF k \in DOMAIN b THEN b[k] ELSE a[k]]

\* ",".join(tags_list): the tags in order, marked as one string
JoinTags(tags) == <<"csv">> \o tags

\* cleanMeta of a chunk: user_group_tags becomes a string and yields
\* user_group (its first tag); scalar values are kept
CleanMeta(metaRaw) ==
    LET scalars == [k \in (DOMAIN metaRaw) \ {"user_group_tags"} |-> metaRaw[k]]
    IN IF "user_group_tags" \in DOMAIN metaRaw /\ Len(metaRaw["user_group_tags"]) > 0
       THEN LET withTags == DictMerge(scalars,
                                [user_group_tags |-> JoinTags(metaRaw["user_group_tags"])])
            IN IF "user_group" \in DOMAIN withTags THEN withTags
               ELSE DictMerge(withTags, [user_group |-> metaRaw["user_group_tags"][1]])
       ELSE scalars

\* Variant of ForcedMeta in which the caller's values win over the injected ones
ForcedMeta_CallerWins(cleanMeta, chunkId, chatbotId_, documentId) ==
    DictMerge([chunk_id |-> chunkId, chatbot_id |-> chatbotId_, document_id |-> documentId],
              cleanMeta)

\* meta = {**cleanMeta, "chunk_id": ..., "chatbot_id": ..., "document_id": ...}
ForcedMeta(cleanMeta, chunkId, chatbotId_, documentId) ==
    DictMerge(cleanMeta,
              [chunk_id |-> chunkId, chatbot_id |-> chatbotId_, document_id |-> documentId])

\* the ids list built by the loop: chunk_id, or f"{documentId}_{len(ids)}"
UpsertIds(documentId, batch) ==
    [i \in 1..Len(batch) |->
        IF batch[i].chunk_id = NoChunkId THEN <<documentId, i - 1>> ELSE batch[i].chunk_id]

\* the metas list built by the loop
UpsertMetas(chatbotId_, documentId, batch) ==
    [i \in 1..Len(batch) |->
        ForcedMeta(CleanMeta(batch[i].meta), UpsertIds(documentId, batch)[i],
                   chatbotId_, documentId)]

\* Chroma rejects a call whose ids repeat, and one without ids
UpsertRejected(ids) == Len(ids) = 0 \/ Cardinality(Range(ids)) # Len(ids)

\* col.upsert on an existing id replaces the record, or keeps those of its
\* metadata keys that the new metadata does not set
UpsertRecord(col, id, text, meta, keepOld) ==
    [text |-> text,
     meta |-> IF keepOld /\ id \in DOMAIN col THEN DictMerge(col[id].meta, meta) ELSE meta]

\* the collection after col.upsert(ids, documents, metadatas)
UpsertInto(col, ids, batch, metas, keepOld) ==
    [id \in (DOMAIN col) \cup Range(ids) |->
        IF id \in Range(ids)
        THEN LET i == CHOOSE j \in 1..Len(ids) : ids[j] = id
             IN UpsertRecord(col, id, batch[i].text, metas[i], keepOld)
        ELSE col[id]]

\* Variant of DeleteWhere that empties the collection
DeleteWhere_WholeCollection(col, documentId) ==
    [id \in {x \in DOMAIN col : FALSE} |-> col[id]]

\* the collection after col.delete(where={"document_id": documentId})
DeleteWhere(col, documentId) ==
    [id \in {x \in DOMAIN col : ~("document_id" \in DOMAIN col[x].meta
                                   /\ col[x].meta["document_id"] = documentId)} |-> col[id]]

\* the number of records of all collections
RecordCount(cols) == Cardinality(UNION {{<<b, id>> : id \in DOMAIN cols[b]} : b \in Chatbots})

\* Chroma starts without records
InitStore ==
    /\ QueryIdle /\ MergeIdle /\ CleanIdle /\ ChunkIdle /\ FilterIdle /\ EstimateIdle /\ LateIdle
    /\ sCol = [b \in Chatbots |-> <<>>]
    /\ sWriter = [b \in Chatbots |-> <<>>]
    /\ sLast = [op |-> "none", chatbotId |-> "-", documentId |-> "-", outcome |-> "-",
                 removed |-> FALSE]

\* upsertChunks: len(chunks) != len(embeddings)
UpsertLengthMismatch ==
    /\ \E b \in Chatbots, d \in StoreDocs :
          sLast' = [op |-> "upsert", chatbotId |-> b, documentId |-> d,
                    outcome |-> "value_error", removed |-> FALSE]
    /\ UNCHANGED <<sCol, sWriter, nonStore>>

\* upsertChunks: col.upsert raises (no ids, repeated ids, or the store fails)
UpsertFails ==
    /\ \E b \in Chatbots, d \in StoreDocs :
          sLast' = [op |-> "upsert", chatbotId |-> b, documentId |-> d, outcome |-> "raised",
                    removed |-> FALSE]
    /\ UNCHANGED <<sCol, sWriter, nonStore>>

\* upsertChunks returns len(ids)
Upsert ==
    \E b \in Chatbots, d \in StoreDocs, batch \in ChunkBatches, keepOld \in BOOLEAN :
        LET ids == UpsertIds(d, batch)
            col == UpsertInto(sCol[b], ids, batch, UpsertMetas(b, d, batch), keepOld)
        IN /\ ~UpsertRejected(ids)
           /\ RecordCount([sCol EXCEPT ![b] = col]) <= MaxRecords
           /\ sCol' = [sCol EXCEPT ![b] = col]
           /\ sWriter' = [sWriter EXCEPT ![b] =
                             [id \in DOMAIN col |-> IF id \in Range(ids) THEN d ELSE sWriter[b][id]]]
           /\ sLast' = [op |-> "upsert", chatbotId |-> b, documentId |-> d,
                        outcome |-> "returned", removed |-> FALSE]
           /\ UNCHANGED nonStore

\* deleteChunksByDocument returns
Delete ==
    \E b \in Chatbots, d \in StoreDocs :
        LET col == DeleteWhere(sCol[b], d)
        IN /\ sCol' = [sCol EXCEPT ![b] = col]
           /\ sWriter' = [sWriter EXCEPT ![b] = [id \in DOMAIN col |-> sWriter[b][id]]]
           /\ sLast' = [op |-> "delete", chatbotId |-> b, documentId |-> d,
                        outcome |-> "returned",
                        removed |-> DOMAIN col # DOMAIN sCol[b]]
           /\ UNCHANGED nonStore

\* deleteChunksByDocument: col.delete raises
DeleteFails ==
    /\ \E b \in Chatbots, d \in StoreDocs :
          sLast' = [op |-> "delete", chatbotId |-> b, documentId |-> d, outcome |-> "raised",
                    removed |-> FALSE]
    /\ UNCHANGED <<sCol, sWriter, nonStore>>

NextStore == UpsertLengthMismatch \/ UpsertFails \/ Upsert \/ Delete \/ DeleteFails

SpecStore == InitStore /\ [][NextStore]_vars

----------------------------------------------------------------------------
(* services/parsing/extractPDF.py: _filterImagesByContainment *)

\* largest number of image candidates of a page
MaxCands == 3

\* the variables of the runs other than the containment filter
nonFilter == <<qvars, mvars, cvars, kvars, svars, evars, latevars>>

Rect(x0, y0, x1, y1) == [x0 |-> x0, y0 |-> y0, x1 |-> x1, y1 |-> y1]

\* Bounding boxes of a page: an outer box, two boxes nested in it (one inside
\* the other), a box overlapping the outer one, and a box apart from all
PageBoxes == {Rect(0, 0, 4, 4), Rect(1, 1, 3, 3), Rect(1, 1, 2, 2),
              Rect(3, 3, 5, 5), Rect(6, 6, 7, 7)}

\* outer.contains(inner) of the rectangle class: inner lies within outer,
\* borders included
Contains(outer, inner) ==
    /\ outer.x0 <= inner.x0 /\ outer.y0 <= inner.y0
    /\ inner.x1 <= outer.x1 /\ inner.y1 <= outer.y1

\* Variant of InnerLoop that drops the containing box instead of the contained one
RECURSIVE InnerLoop_RemoveOuter(_, _, _, _)
InnerLoop_RemoveOuter(cands, i, j, removed) ==
    IF j > Len(cands) THEN removed
    ELSE IF i = j \/ j \in removed THEN InnerLoop_RemoveOuter(cands, i, j + 1, removed)
    ELSE IF Contains(cands[i].bbox, cands[j].bbox) THEN removed \cup {i}
    ELSE IF Contains(cands[j].bbox, cands[i].bbox)
         THEN InnerLoop_RemoveOuter(cands, i, j + 1, removed \cup {j})
    ELSE InnerLoop_RemoveOuter(cands, i, j + 1, removed)

\* for j in range(num_candidates), from j on: indices_to_remove afterwards
RECURSIVE InnerLoop(_, _, _, _)
InnerLoop(cands, i, j, removed) ==
    IF j > Len(cands) THEN removed
    ELSE IF i = j \/ j \in removed THEN InnerLoop(cands, i, j + 1, removed)
    ELSE IF Contains(cands[j].bbox, cands[i].bbox) THEN removed \cup {i}
    ELSE IF Contains(cands[i].bbox, cands[j].bbox)
         THEN InnerLoop(cands, i, j + 1, removed \cup {j})
    ELSE InnerLoop(cands, i, j + 1, removed)

\* [candidate for idx, candidate in enumerate(candidates) if idx not in indices_to_remove]
RECURSIVE FinalCandidates(_, _, _)
FinalCandidates(cands, idx, removed) ==
    IF idx > Len(cands) THEN <<>>
    ELSE (IF idx \in removed THEN <<>> ELSE <<cands[idx]>>)
         \o FinalCandidates(cands, idx + 1, removed)

\* an image candidate: xref identifies the image, bbox is its place on the page
Candidate(xref, bbox) == [xref |-> xref, bbox |-> bbox]

InitFilter ==
    /\ QueryIdle /\ MergeIdle /\ CleanIdle /\ ChunkIdle /\ StoreIdle /\ EstimateIdle /\ LateIdle
    /\ \E n \in 0..MaxCands : \E boxes \in [1..n -> PageBoxes] :
          fCands = [i \in 1..n |-> Candidate(i, boxes[i])]
    /\ fPc = "start" /\ fI = 1 /\ fRemoved = {} /\ fOut = <<>>

\* if not candidates: return []
FilterEmpty ==
    /\ fPc = "start" /\ Len(fCands) = 0
    /\ fPc' = "done" /\ fOut' = <<>>
    /\ UNCHANGED <<fCands, fI, fRemoved, nonFilter>>

FilterBegin ==
    /\ fPc = "start" /\ Len(fCands) > 0
    /\ fPc' = "loop"
    /\ UNCHANGED <<fCands, fI, fRemoved, fOut, nonFilter>>

\* if i in indices_to_remove: continue
FilterSkip ==
    /\ fPc = "loop" /\ fI <= Len(fCands) /\ fI \in fRemoved
    /\ fI' = fI + 1
    /\ UNCHANGED <<fPc, fCands, fRemoved, fOut, nonFilter>>

\* one iteration of the outer loop with its inner loop
FilterCompare ==
    /\ fPc = "loop" /\ fI <= Len(fCands) /\ fI \notin fRemoved
    /\ fRemoved' = InnerLoop(fCands, fI, 1, fRemoved)
    /\ fI' = fI + 1
    /\ UNCHANGED <<fPc, fCands, fOut, nonFilter>>

\* return final_candidates
FilterReturn ==
    /\ fPc = "loop" /\ fI > Len(fCands)
    /\ fOut' = FinalCandidates(fCands, 1, fRemoved)
    /\ fPc' = "done"
    /\ UNCHANGED <<fCands, fI, fRemoved, nonFilter>>

NextFilter == FilterEmpty \/ FilterBegin \/ FilterSkip \/ FilterCompare \/ FilterReturn

SpecFilter == InitFilter /\ [][NextFilter]_vars

----------------------------------------------------------------------------
(* services/queryService.py: _estimateRetrievalConfidence on its own, over  *)
(* every score from 0.000 to MaxScore thousandths                           *)

\* largest maxScore argument, in thousandths
MaxScore == 1000

\* the variables of the runs other than the confidence estimate
nonEstimate == <<qvars, mvars, cvars, kvars, svars, fvars, latevars>>

InitEstimate ==
    /\ QueryIdle /\ MergeIdle /\ CleanIdle /\ ChunkIdle /\ StoreIdle /\ FilterIdle /\ LateIdle
    /\ ePc = "call" /\ eScore \in 0..MaxScore /\ eBucket = "-"

\* return of _estimateRetrievalConfidence(maxScore)
Estimate ==
    /\ ePc = "call"
    /\ eBucket' = EstimateRetrievalConfidence(eScore)
    /\ ePc' = "done"
    /\ UNCHANGED <<eScore, nonEstimate>>

NextEstimate == Estimate

SpecEstimate == InitEstimate /\ [][NextEstimate]_vars

----------------------------------------------------------------------------
(* backend/routes_document.py: the indexing thread that ManualCollection.post *)
(* starts for an uploaded document (run_indexing_task) and DELETE requests   *)
(* for the same document (ManualItem.delete), interleaved step by step.      *)
(* A status UPDATE and its commit are one step that either takes effect or   *)
(* raises without effect. processDocument and deleteDocument are functions   *)
(* of services/documentService.py: processDocument runs the ingestion        *)
(* pipeline and ends with upsertChunks, raising on embedding and             *)
(* vector-store errors; deleteDocument removes the document's records with   *)
(* deleteChunksByDocument.                                                   *)

\* the chatbot and the document of the upload
UploadBot == "bot1"
UploadDoc == "D1"

\* the variables of the runs other than the upload and its DELETE
nonUpload == <<qvars, mvars, cvars, kvars, svars, fvars, evars, rvars, ovars>>

\* the chunk lists processDocument hands to upsertChunks
UploadBatches ==
    UNION {[1..n -> {[chunk_id |-> NoChunkId, text |-> <<"t">>, meta |-> PlainMeta]}] :
              n \in 1..MaxBatch}

\* whether the collection holds a record of the document
HoldsDocument(col, documentId) ==
    \E id \in DOMAIN col : /\ "document_id" \in DOMAIN col[id].meta
                           /\ col[id].meta["document_id"] = documentId

\* UPDATE documents SET status=... WHERE document_id=...: no row, no change
StatusAfterUpdate(status, new) == IF status = "absent" THEN "absent" ELSE new

\* The INSERT with status 'pending' is committed; the thread is started
\* when documentServiceAvailable
InitUpload ==
    /\ QueryIdle /\ MergeIdle /\ CleanIdle /\ ChunkIdle /\ StoreIdle /\ FilterIdle
    /\ EstimateIdle /\ ReaderIdle /\ OcrIdle
    /\ uAvail \in BOOLEAN
    /\ uPc = IF uAvail THEN "connect" ELSE "not_started"
    /\ uStatus = "pending" /\ uProc = "-" /\ uCause = "-" /\ uCol = <<>> /\ dPc = "none"

\* t_conn = get_db_connection(); t_cur = t_conn.cursor()
ThreadConnect ==
    /\ uPc = "connect"
    /\ uPc' = "set_indexing"
    /\ UNCHANGED <<uAvail, uStatus, uProc, uCause, uCol, dPc, nonUpload>>

\* get_db_connection() raises: it is outside the try, the thread ends
ThreadConnectFails ==
    /\ uPc = "connect"
    /\ uPc' = "died"
    /\ UNCHANGED <<uAvail, uStatus, uProc, uCause, uCol, dPc, nonUpload>>

\* (1) UPDATE documents SET status='indexing'; commit
SetIndexing ==
    /\ uPc = "set_indexing"
    /\ uStatus' = StatusAfterUpdate(uStatus, "indexing")
    /\ uPc' = "process"
    /\ UNCHANGED <<uAvail, uProc, uCause, uCol, dPc, nonUpload>>

\* (1) raises: the except branch is entered before processDocument is called
SetIndexingFails ==
    /\ uPc = "set_indexing"
    /\ uPc' = "except" /\ uCause' = "db"
    /\ UNCHANGED <<uAvail, uStatus, uProc, uCol, dPc, nonUpload>>

\* (2) processDocument: the pipeline up to the embeddings
ProcessPipeline ==
    /\ uPc = "process"
    /\ uPc' = "upsert"
    /\ UNCHANGED <<uAvail, uStatus, uProc, uCause, uCol, dPc, nonUpload>>

\* (2) processDocument raises before or instead of the upsert
ProcessRaises ==
    /\ uPc \in {"process", "upsert"}
    /\ uProc' = "raised"
    /\ uPc' = "except" /\ uCause' = "process"
    /\ UNCHANGED <<uAvail, uStatus, uCol, dPc, nonUpload>>

\* (2) processDocument: upsertChunks of the document's chunks, then return
ProcessUpsert ==
    /\ uPc = "upsert"
    /\ \E batch \in UploadBatches, keepOld \in BOOLEAN :
          LET ids == UpsertIds(UploadDoc, batch)
          IN uCol' = UpsertInto(uCol, ids, batch, UpsertMetas(UploadBot, UploadDoc, batch),
                                keepOld)
    /\ uProc' = "returned"
    /\ uPc' = "set_ready"
    /\ UNCHANGED <<uAvail, uStatus, uCause, dPc, nonUpload>>

\* (3) UPDATE documents SET status='ready'; commit
SetReady ==
    /\ uPc = "set_ready"
    /\ uStatus' = StatusAfterUpdate(uStatus, "ready")
    /\ uPc' = "done"
    /\ UNCHANGED <<uAvail, uProc, uCause, uCol, dPc, nonUpload>>

\* (3) raises: the except branch is entered after processDocument returned
SetReadyFails ==
    /\ uPc = "set_ready"
    /\ uPc' = "except" /\ uCause' = "db"
    /\ UNCHANGED <<uAvail, uStatus, uProc, uCol, dPc, nonUpload>>

\* (4) except Exception: rollback; UPDATE documents SET status='failed'; commit
ExceptBranch ==
    /\ uPc = "except"
    /\ uStatus' = StatusAfterUpdate(uStatus, "failed")
    /\ uPc' = "done"
    /\ UNCHANGED <<uAvail, uProc, uCause, uCol, dPc, nonUpload>>

\* (4) raises inside the except branch: the thread ends, the status stays
ExceptBranchFails ==
    /\ uPc = "except"
    /\ uPc' = "died"
    /\ UNCHANGED <<uAvail, uStatus, uProc, uCause, uCol, dPc, nonUpload>>

\* DELETE: the SELECT finds the row
DeleteSelect ==
    /\ dPc \in {"none", "done"}
    /\ uStatus # "absent"
    /\ dPc' = "vector"
    /\ UNCHANGED <<uAvail, uPc, uStatus, uProc, uCause, uCol, nonUpload>>

\* DELETE: if not row: 404
DeleteNotFound ==
    /\ dPc \in {"none", "done"}
    /\ uStatus = "absent"
    /\ dPc' = "not_found"
    /\ UNCHANGED <<uAvail, uPc, uStatus, uProc, uCause, uCol, nonUpload>>

\* DELETE: deleteDocument returns
DeleteVector ==
    /\ dPc = "vector" /\ uAvail
    /\ uCol' = DeleteWhere(uCol, UploadDoc)
    /\ dPc' = "row"
    /\ UNCHANGED <<uAvail, uPc, uStatus, uProc, uCause, nonUpload>>

\* DELETE: deleteDocument raises, the route prints a warning and goes on
DeleteVectorWarns ==
    /\ dPc = "vector" /\ uAvail
    /\ dPc' = "row"
    /\ UNCHANGED <<uAvail, uPc, uStatus, uProc, uCause, uCol, nonUpload>>

\* DELETE: documentService is not available, the vector store is left alone
DeleteVectorSkipped ==
    /\ dPc = "vector" /\ ~uAvail
    /\ dPc' = "row"
    /\ UNCHANGED <<uAvail, uPc, uStatus, uProc, uCause, uCol, nonUpload>>

\* DELETE FROM documents WHERE document_id=...; commit; 200
DeleteRow ==
    /\ dPc = "row"
    /\ uStatus' = "absent"
    /\ dPc' = "done"
    /\ UNCHANGED <<uAvail, uPc, uProc, uCause, uCol, nonUpload>>

\* DELETE: a database statement raises: rollback; 500
DeleteDbError ==
    /\ dPc \in {"none", "done", "row"}
    /\ dPc' = "error"
    /\ UNCHANGED <<uAvail, uPc, uStatus, uProc, uCause, uCol, nonUpload>>

NextUpload ==
    \/ ThreadConnect \/ ThreadConnectFails
    \/ SetIndexing \/ SetIndexingFails
    \/ ProcessPipeline \/ ProcessRaises \/ ProcessUpsert
    \/ SetReady \/ SetReadyFails
    \/ ExceptBranch \/ ExceptBranchFails
    \/ DeleteSelect \/ DeleteNotFound
    \/ DeleteVector \/ DeleteVectorWarns \/ DeleteVectorSkipped
    \/ DeleteRow \/ DeleteDbError

SpecUpload == InitUpload /\ [][NextUpload]_vars

----------------------------------------------------------------------------
(* services/parsing/runOCR.py: _getReader and the module-level cache        *)
(* _OCR_READER under the indexing threads of concurrent uploads. Each       *)
(* thread runs runOCR once; a step is one access of the module global.      *)

\* number of indexing threads alive at once
MaxThreads == 2

OcrThreads == 1..MaxThreads

\* the variables of the runs other than the reader cache
nonReader == <<qvars, mvars, cvars, kvars, svars, fvars, evars, uvars, ovars>>

\* The module is imported (_OCR_READER = None) and every thread is about to
\* call _getReader from runOCR
InitReader ==
    /\ QueryIdle /\ MergeIdle /\ CleanIdle /\ ChunkIdle /\ StoreIdle /\ FilterIdle
    /\ EstimateIdle /\ UploadIdle /\ OcrIdle
    /\ rReader = 0 /\ rBuilt = 0
    /\ rPc = [t \in OcrThreads |-> "check"]
    /\ rLocal = [t \in OcrThreads |-> 0]

\* if _OCR_READER is not None: return _OCR_READER
GetReaderCheck(t) ==
    /\ rPc[t] = "check"
    /\ IF rReader # 0
       THEN rLocal' = [rLocal EXCEPT ![t] = rReader] /\ rPc' = [rPc EXCEPT ![t] = "readtext"]
       ELSE rLocal' = rLocal /\ rPc' = [rPc EXCEPT ![t] = "construct"]
    /\ UNCHANGED <<rReader, rBuilt, nonReader>>

\* easyocr.Reader(...) returns a new instance
GetReaderConstruct(t) ==
    /\ rPc[t] = "construct"
    /\ rBuilt' = rBuilt + 1
    /\ rLocal' = [rLocal EXCEPT ![t] = rBuilt + 1]
    /\ rPc' = [rPc EXCEPT ![t] = "assign"]
    /\ UNCHANGED <<rReader, nonReader>>

\* easyocr.Reader(...) raises: logged and raised again, runOCR raises
GetReaderConstructFails(t) ==
    /\ rPc[t] = "construct"
    /\ rPc' = [rPc EXCEPT ![t] = "raised"]
    /\ UNCHANGED <<rReader, rBuilt, rLocal, nonReader>>

\* _OCR_READER = <the new instance>
GetReaderAssign(t) ==
    /\ rPc[t] = "assign"
    /\ rReader' = rLocal[t]
    /\ rPc' = [rPc EXCEPT ![t] = "return"]
    /\ UNCHANGED <<rBuilt, rLocal, nonReader>>

\* return _OCR_READER: the global is read again
GetReaderReturn(t) ==
    /\ rPc[t] = "return"
    /\ rLocal' = [rLocal EXCEPT ![t] = rReader]
    /\ rPc' = [rPc EXCEPT ![t] = "readtext"]
    /\ UNCHANGED <<rReader, rBuilt, nonReader>>

\* runOCR: the loop over the pages with reader, del reader, return
RunPagesWithReader(t) ==
    /\ rPc[t] = "readtext"
    /\ rPc' = [rPc EXCEPT ![t] = "done"]
    /\ UNCHANGED <<rReader, rBuilt, rLocal, nonReader>>

NextReader ==
    \E t \in OcrThreads :
        \/ GetReaderCheck(t)
        \/ GetReaderConstruct(t) \/ GetReaderConstructFails(t)
        \/ GetReaderAssign(t) \/ GetReaderReturn(t)
        \/ RunPagesWithReader(t)

SpecReader == InitReader /\ [][NextReader]_vars

----------------------------------------------------------------------------
(* services/parsing/runOCR.py: one runOCR call (runOCR, _runPage,           *)
(* _convertBBoxToPdf). Pixel coordinates and scales are integers chosen so  *)
(* that the divisions are exact.                                            *)

\* largest number of MaskedPages of a call
MaxOcrPages == 1
\* largest number of entries reader.readtext returns for a page
MaxDetections == 2

\* the variables of the runs other than the runOCR call
nonOcr == <<qvars, mvars, cvars, kvars, svars, fvars, evars, uvars, rvars>>

\* a MaskedPage: no image, an image of size 0 or an image with pixels, and
\* its scales (pixels per point)
MaskedPageKinds == [image : {"none", "empty", "pixels"}, scaleX : {0, 2}, scaleY : {0, 2}]

ZeroBBox == <<0, 0, 0, 0>>
NoProb == 0 - 1

\* what readtext(detail=1) may hand back per detection: something that is
\* not a (bbox_points, text, prob) triple, a triple with blank text, a
\* regular triple, and a triple whose points and prob are not numbers
OcrEntries ==
    {[kind |-> "malformed"],
     [kind |-> "triple", points |-> <<<<2, 4>>, <<6, 4>>, <<6, 8>>, <<2, 8>>>>, numeric |-> TRUE,
      text |-> <<"SP">>, prob |-> 900],
     [kind |-> "triple", points |-> <<<<2, 4>>, <<6, 4>>, <<6, 8>>, <<2, 8>>>>, numeric |-> TRUE,
      text |-> <<"SP", "t">>, prob |-> 900],
     [kind |-> "triple", points |-> <<>>, numeric |-> FALSE, text |-> <<"t">>, prob |-> NoProb]}

\* the ways a readtext call ends: it raises, or returns up to MaxDetections entries
ReadOutcomes ==
    {[called |-> TRUE, raised |-> TRUE, entries |-> <<>>]} \cup
    {[called |-> TRUE, raised |-> FALSE, entries |-> es] :
        es \in UNION {[1..n -> OcrEntries] : n \in 0..MaxDetections}}
NotRead == [called |-> FALSE, raised |-> FALSE, entries |-> <<>>]

\* Variant of ConvertBBoxToPdf without the test of the scales: the pixel box
\* is handed on as it is when a scale is 0
ConvertBBoxToPdf_NoScaleTest(maskedPage, e) ==
    IF ~e.numeric THEN ZeroBBox
    ELSE LET xs == {e.points[i][1] : i \in DOMAIN e.points}
             ys == {e.points[i][2] : i \in DOMAIN e.points}
         IN IF maskedPage.scaleX = 0 \/ maskedPage.scaleY = 0
            THEN <<Min(xs, 0), Min(ys, 0), Max(xs, 0), Max(ys, 0)>>
            ELSE <<Min(xs, 0) \div maskedPage.scaleX, Min(ys, 0) \div maskedPage.scaleY,
                   Max(xs, 0) \div maskedPage.scaleX, Max(ys, 0) \div maskedPage.scaleY>>

\* _convertBBoxToPdf: (0, 0, 0, 0) when the points do not parse or a scale is 0
ConvertBBoxToPdf(maskedPage, e) ==
    IF ~e.numeric THEN ZeroBBox
    ELSE LET xs == {e.points[i][1] : i \in DOMAIN e.points}
             ys == {e.points[i][2] : i \in DOMAIN e.points}
         IN IF maskedPage.scaleX = 0 \/ maskedPage.scaleY = 0
            THEN ZeroBBox
            ELSE <<Min(xs, 0) \div maskedPage.scaleX, Min(ys, 0) \div maskedPage.scaleY,
                   Max(xs, 0) \div maskedPage.scaleX, Max(ys, 0) \div maskedPage.scaleY>>

\* the loop of _runPage over result: entries that do not unpack and entries
\* with blank text are skipped, every other entry becomes a TextBlock
RECURSIVE EntryBlocks(_, _, _, _)
EntryBlocks(pageNo, maskedPage, entries, localIdx) ==
    IF entries = <<>> THEN <<>>
    ELSE LET e == Head(entries)
         IN IF e.kind = "malformed" \/ Strip(e.text) = <<>>
            THEN EntryBlocks(pageNo, maskedPage, Tail(entries), localIdx)
            ELSE <<[page |-> pageNo, block_id |-> <<pageNo, localIdx + 1>>,
                    bbox |-> ConvertBBoxToPdf(maskedPage, e), text |-> Strip(e.text),
                    prob |-> e.prob]>>
                 \o EntryBlocks(pageNo, maskedPage, Tail(entries), localIdx + 1)

\* whether _runPage returns before calling readtext
EmptyImage(maskedPage) == maskedPage.image \in {"none", "empty"}

\* _runPage, given how its readtext call ends
RunPage(pageNo, maskedPage, read) ==
    IF EmptyImage(maskedPage) \/ read.raised THEN <<>>
    ELSE EntryBlocks(pageNo, maskedPage, read.entries, 0)

InitOcr ==
    /\ QueryIdle /\ MergeIdle /\ CleanIdle /\ ChunkIdle /\ StoreIdle /\ FilterIdle
    /\ EstimateIdle /\ UploadIdle /\ ReaderIdle
    /\ oPages \in UNION {[1..n -> MaskedPageKinds] : n \in 0..MaxOcrPages}
    /\ oPc = "start" /\ oI = 0 /\ oSeen = <<>> /\ oBlocks = <<>>

\* if not maskedPages: return []
OcrNoPages ==
    /\ oPc = "start" /\ oPages = <<>>
    /\ oPc' = "done"
    /\ UNCHANGED <<oPages, oI, oSeen, oBlocks, nonOcr>>

\* reader = _getReader()
OcrGetReader ==
    /\ oPc = "start" /\ oPages # <<>>
    /\ oPc' = "pages" /\ oI' = 1
    /\ UNCHANGED <<oPages, oSeen, oBlocks, nonOcr>>

\* _getReader() raises: runOCR raises
OcrGetReaderFails ==
    /\ oPc = "start" /\ oPages # <<>>
    /\ oPc' = "raised"
    /\ UNCHANGED <<oPages, oI, oSeen, oBlocks, nonOcr>>

\* one round of the loop: allBlocks.extend(_runPage(maskedPage, reader))
OcrRunPage ==
    /\ oPc = "pages" /\ oI <= Len(oPages)
    /\ \E read \in (IF EmptyImage(oPages[oI]) THEN {NotRead} ELSE ReadOutcomes) :
          /\ oSeen' = Append(oSeen, read)
          /\ oBlocks' = oBlocks \o RunPage(oI, oPages[oI], read)
    /\ oI' = oI + 1
    /\ UNCHANGED <<oPc, oPages, nonOcr>>

\* return allBlocks
OcrReturn ==
    /\ oPc = "pages" /\ oI > Len(oPages)
    /\ oPc' = "done"
    /\ UNCHANGED <<oPages, oI, oSeen, oBlocks, nonOcr>>

NextOcr == OcrNoPages \/ OcrGetReader \/ OcrGetReaderFails \/ OcrRunPage \/ OcrReturn

SpecOcr == InitOcr /\ [][NextOcr]_vars

----------------------------------------------------------------------------
(* Properties of the query pipeline *)

SearchCalls == {"embed", "store_query", "store_get"}
Terminal == {"BLOCKED", "LOW_CONFIDENCE", "ANSWERED"}
StageOrder == <<"REFINE", "SAFETY_CHECK", "SEARCH", "CONFIDENCE_GATE", "ANSWER_SYNTH">>
Last(s) == s[Len(s)]
Abs(x) == IF x < 0 THEN 0 - x ELSE x

\* The search stage has returned to progressQuery
SearchDone == Len(stages) >= 3 /\ stages[3] = "SEARCH" /\ pc # "RAISED"
\* The confidence gate has been evaluated
GateDone == Len(stages) >= 4 /\ stages[4] = "CONFIDENCE_GATE"

\* C1: whenever the refinement result carries block_required = true, the run
\* issues no search call (embedding, store query, store get) and no LLM task 2
\* call, and once past the safety check it has returned the fixed
\* policy-refusal answer with no supporting chunks and no images.
C1_BlockedShortCircuit ==
    (norm.has_safety /\ norm.block_required = "true") =>
        /\ \A i \in DOMAIN calls : calls[i] \notin SearchCalls \cup {"llm2"}
        /\ pc \in {"SAFETY_CHECK", "BLOCKED"}
        /\ pc = "BLOCKED" =>
             /\ result.answer = <<"REFUSAL">>
             /\ result.supporting_chunks = <<>>
             /\ result.images = <<>>

C1_Witness ==
    /\ pc = "BLOCKED" /\ norm.block_required = "true" /\ result.answer = <<"REFUSAL">>

\* C2: in a run that is not blocked, once the gate has been evaluated, if
\* every retrieved chunk scores below 0.40 (400 thousandths; this includes the
\* case of no chunk at all) then no LLM task 2 call is made and the run has
\* returned the fixed insufficient-evidence answer with exactly the retrieved
\* chunks as supporting_chunks and exactly the image keys of their metadata.
C2_LowConfidenceShortCircuit ==
    (GateDone /\ \A i \in DOMAIN rawChunks : rawChunks[i].score < 400) =>
        /\ pc = "LOW_CONFIDENCE"
        /\ \A i \in DOMAIN calls : calls[i] # "llm2"
        /\ result.answer = <<"INSUFFICIENT">>
        /\ Len(result.supporting_chunks) = Len(rawChunks)
        /\ Range(result.supporting_chunks) = Range(rawChunks)
        /\ {result.images[i].image_key : i \in DOMAIN result.images}
             = UNION {Range(rawChunks[i].meta.image_paths) : i \in DOMAIN rawChunks}
        /\ Len(result.images) = Cardinality({result.images[i].image_key : i \in DOMAIN result.images})

C2_Witness ==
    /\ pc = "LOW_CONFIDENCE"
    /\ Len(rawChunks) > Len(baseChunks) /\ Len(baseChunks) = 2
    /\ \A i \in DOMAIN rawChunks : rawChunks[i].score < 400
    /\ Len(result.images) = 2

\* C3: no exception leaves progressQuery from the refinement stage or from the
\* answer-synthesis stage, however LLM task 1 or LLM task 2 fails.
C3_NeverRaisesOnLlmFailure ==
    pc = "RAISED" => Last(stages) \notin {"REFINE", "ANSWER_SYNTH"}

\* C4: the stages entered are always an initial part of REFINE, SAFETY_CHECK,
\* SEARCH, CONFIDENCE_GATE, ANSWER_SYNTH (in this order, none twice); a
\* completed run is BLOCKED with exactly the first two stages iff
\* block_required is set (truthy), else LOW_CONFIDENCE with exactly the first
\* four iff the confidence bucket is below "low" (that is, "unknown"), else
\* ANSWERED with all five.
C4_StageOrderAndTerminal ==
    /\ stages = SubSeq(StageOrder, 1, Len(stages))
    /\ pc \in Terminal =>
         LET blocked == norm.has_safety /\ norm.block_required \in {"true", "string"}
         IN /\ (pc = "BLOCKED") = blocked
            /\ (pc = "LOW_CONFIDENCE") = (~blocked /\ conf = "unknown")
            /\ (pc = "ANSWERED") = (~blocked /\ conf \in {"low", "medium", "high"})
            /\ pc = "BLOCKED" => Len(stages) = 2
            /\ pc = "LOW_CONFIDENCE" => Len(stages) = 4
            /\ pc = "ANSWERED" => Len(stages) = 5

C4_Witness ==
    /\ pc = "ANSWERED" /\ conf = "low" /\ stages = StageOrder
    /\ norm.has_safety /\ norm.block_required = "null"

\* The neighbour chunks of the search result: what follows the base hits
NeighborPart == SubSeq(rawChunks, Len(baseChunks) + 1, Len(rawChunks))

\* C5: every appended neighbour has the document_id of some base hit b and an
\* order_index o with 1 <= |o - order_index(b)| <= neighborRadius, so no chunk
\* of a document without base hit is appended; no neighbour has the chunk_id
\* of a base hit or of another neighbour.
C5_NeighborsNearBaseHits ==
    SearchDone =>
        /\ SubSeq(rawChunks, 1, Len(baseChunks)) = baseChunks
        /\ \A i \in DOMAIN NeighborPart :
             LET n == NeighborPart[i]
             IN /\ n.meta.has_oi
                /\ \E j \in DOMAIN baseChunks :
                     /\ baseChunks[j].meta.document_id = n.meta.document_id
                     /\ baseChunks[j].meta.has_oi
                     /\ Abs(n.meta.order_index - baseChunks[j].meta.order_index) >= 1
                     /\ Abs(n.meta.order_index - baseChunks[j].meta.order_index) <= NeighborRadius
                /\ \A j \in DOMAIN baseChunks : baseChunks[j].chunk_id # n.chunk_id
                /\ \A k \in DOMAIN NeighborPart : k # i => NeighborPart[k].chunk_id # n.chunk_id

\* A hit on chunk 1 of D1 alone brought in its neighbours 0, 2 and 3, and
\* nothing of D2 although D2 holds a chunk with order_index 0
C5_Witness ==
    /\ SearchDone
    /\ Len(baseChunks) = 1 /\ baseChunks[1].chunk_id = <<"D1", 1>>
    /\ {NeighborPart[i].chunk_id : i \in DOMAIN NeighborPart} = {<<"D1", 0>>, <<"D1", 2>>, <<"D1", 3>>}

\* The stored record behind a returned chunk
RecordOf(c) == CHOOSE r \in store[chatbotId] : r.chunk_id = c.chunk_id

\* C6: when userGroup is given, every chunk the search stage returns, top-K
\* hit or neighbour, is a record of the requested chatbot whose user_group
\* equals the requested userGroup.
C6_ResultsRespectUserGroup ==
    (SearchDone /\ userGroup # NoGroup) =>
        \A i \in DOMAIN rawChunks :
            /\ rawChunks[i].meta.chatbot_id = chatbotId
            /\ RecordOf(rawChunks[i]).user_group = userGroup

----------------------------------------------------------------------------
(* Properties of the LLM refinement stages *)

\* The page handled by the last iteration of mergeText's loop
MergeLastPage == MergeAllPages[mNext - 1]
MergeStepped == mPc \in {"loop", "done"} /\ mNext > 1
PymTextOf(p) == Get(mTexts.pymupdf_texts, p)
OcrTextOf(p) == Get(mTexts.ocr_texts, p)
SrcIdsOf(p) == Get(mTexts.src_ids_by_page, p)
\* the fallback warning was logged in the last iteration
FallbackLogged ==
    Len(mLog) > 0 /\ mLog[Len(mLog)] = [page |-> MergeLastPage, warning |-> "fallback"]
\* the outcomes claim C9 names: call failed, parse failed, empty merged_blocks
Task3Failed(o) == CallQwenRaises(o) \/ ParseJsonRaises(o) \/ o.mb = "empty"

\* C7: every MergedTextBlock in the result of mergeText has a text whose
\* words all occur in the native text or the cleaned OCR text of its page,
\* whatever LLM task 3 returned.
C7_MergedTextOnlyFromSources ==
    mPc \in {"loop", "done"} =>
        \A p \in DOMAIN mResult : \A i \in DOMAIN mResult[p] :
            Words(mResult[p][i].text) \subseteq Words(PymTextOf(p)) \cup Words(OcrTextOf(p))

\* C8: a block whose LLM task 0 call failed, whose content did not parse, or
\* whose cleaned_text is empty (absent, "", blank or null) is output with its
\* input text; the output is the input block by block, in the same order,
\* with only the text changed, and as long as the input at the return.
C8_CleanKeepsTextOnFailure ==
    cPc \in {"loop", "done"} =>
        /\ Len(cOut) <= Len(cBlocks)
        /\ (cPc = "done" => Len(cOut) = Len(cBlocks))
        /\ \A i \in DOMAIN cOut : [cOut[i] EXCEPT !.text = cBlocks[i].text] = cBlocks[i]
        /\ ( /\ Len(cOut) > 0
             /\ \/ CallQwenRaises(cResp)
                \/ ParseJsonRaises(cResp)
                \/ cResp.cleaned_text \in {"absent", "empty", "blank", "null"} )
           => cOut[Len(cOut)].text = cBlocks[Len(cOut)].text

\* C9 as stated: after a failed LLM task 3 the page has exactly the verbatim
\* fallback block, and the result records the fallback: no LLM task 3 outcome
\* that is merged without the fallback gives the page the same result.
C9_FallbackRecordedInResult ==
    (MergeStepped /\ Task3Failed(mResp)) =>
        /\ mResult[MergeLastPage] =
              <<MergedTextBlock(MergeLastPage, 1,
                                FallbackMergePage(PymTextOf(MergeLastPage), OcrTextOf(MergeLastPage)),
                                SrcIdsOf(MergeLastPage), "None")>>
        /\ \A o \in Task3Outcomes :
              LET out == MergePage(MergeLastPage, o, mTexts)
              IN (~out.raised /\ ~out.fallback) => out.blocks # mResult[MergeLastPage]

\* C9 amended: after a failed LLM task 3 (call failed, parse failed, empty
\* merged_blocks) the page has exactly one block, numbered 1, whose text is
\* the native text, a newline and the OCR text (or the one that exists), whose
\* src_block_ids are all source block ids of the page, native first, and the
\* use of the fallback is recorded by a logged warning for the page.
C9_FallbackVerbatimAndLogged ==
    (MergeStepped /\ Task3Failed(mResp)) =>
        LET p == MergeLastPage
            pym == JoinLines(TextsOfPage(mPages.extraction, p))
            ocr == JoinLines(TextsOfPage(mPages.ocrBlocks, p))
            text == IF Len(pym) > 0 /\ Len(ocr) > 0 THEN pym \o <<"NL">> \o ocr
                    ELSE pym \o ocr
        IN /\ Len(mResult[p]) = 1
           /\ mResult[p][1].text = text
           /\ mResult[p][1].block_id = [page |-> p, m |-> 1]
           /\ mResult[p][1].src_block_ids =
                 IdsOfPage(mPages.extraction, p) \o IdsOfPage(mPages.ocrBlocks, p)
           /\ FallbackLogged

\* A page with two native blocks and an OCR block took the fallback
C9_Witness ==
    /\ MergeStepped /\ Task3Failed(mResp)
    /\ Len(TextsOfPage(mPages.extraction, MergeLastPage)) = 2
    /\ Len(TextsOfPage(mPages.ocrBlocks, MergeLastPage)) >= 1
    /\ Len(mResult[MergeLastPage]) = 1
    /\ FallbackLogged

\* C10: mergeText raises no exception, whatever LLM task 3 returned; a page
\* whose merged_blocks holds an entry that is not an object, or only entries
\* without a usable text, gets the verbatim fallback block.
C10_MergeTextNeverRaises ==
    /\ mPc # "raised"
    /\ (MergeStepped /\ mResp.mb = "list"
        /\ \E i \in DOMAIN mResp.merged_blocks :
              mResp.merged_blocks[i].kind # "object"
              \/ mResp.merged_blocks[i].text \in {"blank", "null"})
       /\ (\A i \in DOMAIN mResp.merged_blocks :
              mResp.merged_blocks[i].kind # "object"
              \/ mResp.merged_blocks[i].text \in {"blank", "null"})
       => /\ Len(mResult[MergeLastPage]) = 1
          /\ mResult[MergeLastPage][1].text =
                FallbackMergePage(PymTextOf(MergeLastPage), OcrTextOf(MergeLastPage))

----------------------------------------------------------------------------
(* Properties of the answer stage *)

\* LLM task 2 answered with content that does not parse or with an empty answer
Task2Unusable == llm2.http = "ok" /\ (llm2.content = "not_json" \/ llm2.answer = "empty")
\* s is in non-increasing score order
ScoreDescending(s) == \A i, j \in DOMAIN s : i < j => s[i].score >= s[j].score

C13_RefineFallbackProceeds ==
    (llm1.http = "ok" /\ llm1.content = "not_json") =>
        /\ norm.normalized_query = "question"
        /\ norm.keywords = "empty"
        /\ norm.filters = "default"
        /\ pc \notin {"REFINE", "BLOCKED"}
        /\ pc = "RAISED" => Len(stages) >= 3
        /\ Len(stages) >= 3 => stages[3] = "SEARCH"

\* A run whose refinement fell back has gone through the search stage and
\* returned an answer
C13_Witness ==
    /\ llm1.http = "ok" /\ llm1.content = "not_json"
    /\ pc = "ANSWERED" /\ stages[3] = "SEARCH" /\ norm.normalized_query = "question"

----------------------------------------------------------------------------
(* Properties of the chunker *)

\* maxChars > 0 and 0 <= overlap < maxChars
ChunkValidArgs == kArgs.maxChars > 0 /\ 0 <= kArgs.overlap /\ kArgs.overlap < kArgs.maxChars
ChunkRunning == kPc \in {"pages", "window", "done"}
\* the text _chunkPageText cuts for page p
PageTextOf(p) == Strip(BuildPageText(kArgs.mergedPages[p]))
WindowsOf(p) == SelectSeq(kWindows, LAMBDA w : w.page = p)
\* ceil(a / b) for b > 0
CeilDiv(a, b) == 0 - ((0 - a) \div b)
\* the last n characters and the first n characters of a text
Tail_n(t, n) == SubSeq(t, Len(t) - n + 1, Len(t))
Head_n(t, n) == SubSeq(t, 1, n)

\* C14: with maxChars M > 0 and 0 <= overlap O < M, a page whose text has
\* length L is cut into exactly ceil((L - O) / (M - O)) chunks, and the window
\* of its last chunk ends at index L (stated here for L > O, where the
\* quotient counts at least one chunk).
C14_ChunkCountFormula ==
    (ChunkRunning /\ ChunkValidArgs) =>
        \A i \in 1..Len(ChunkPages) :
            i < kPage =>
                LET L == Len(PageTextOf(ChunkPages[i]))
                    w == WindowsOf(ChunkPages[i])
                IN L > kArgs.overlap =>
                      /\ Len(w) = CeilDiv(L - kArgs.overlap, kArgs.maxChars - kArgs.overlap)
                      /\ Len(w) > 0 /\ w[Len(w)].end = L

C16_OverlapRelationEnforced ==
    /\ (kPc \notin {"idle", "check"} /\ kArgs.overlap >= kArgs.maxChars) => kPc = "rejected"
    /\ kPc \in {"pages", "window", "done"} =>
          \A i \in 1..(Len(kWindows) - 1) :
              kWindows[i].page = kWindows[i + 1].page
                 => kWindows[i + 1].start > kWindows[i].start

----------------------------------------------------------------------------
(* Properties of the vector store operations *)

\* C17: after any sequence of upsertChunks calls (and deletions), every
\* record of the collection of chatbot c has metadata chatbot_id = c,
\* metadata document_id = the documentId of the call that wrote it last, and
\* metadata chunk_id = its record id, whatever the caller put under these keys.
C17_ReservedKeysForced ==
    sLast.op # "idle" =>
        \A b \in Chatbots : \A id \in DOMAIN sCol[b] :
            /\ {"chunk_id", "chatbot_id", "document_id"} \subseteq DOMAIN sCol[b][id].meta
            /\ sCol[b][id].meta["chatbot_id"] = b
            /\ sCol[b][id].meta["document_id"] = sWriter[b][id]
            /\ sCol[b][id].meta["chunk_id"] = id

\* An upsert for D2 into bot2 returned; bot2 holds record "c1" and a record
\* with the generated id "D2_1", both written with the caller's own values
\* under the reserved keys
C17_Witness ==
    /\ sLast.op = "upsert" /\ sLast.outcome = "returned"
    /\ sLast.chatbotId = "bot2" /\ sLast.documentId = "D2"
    /\ DOMAIN sCol["bot2"] = {<<"c1">>, <<"D2", 1>>}
    /\ \A id \in DOMAIN sCol["bot2"] :
          "user_group" \in DOMAIN sCol["bot2"][id].meta /\ sWriter["bot2"][id] = "D2"

\* C18: when deleteChunksByDocument(chatbotId, documentId) returns, the
\* collection of chatbotId holds no record whose metadata document_id is
\* documentId, and the records of every other document of that collection
\* (and every other collection) are exactly as before the call.
C18_DeleteRemovesExactlyDocument ==
    [][(sLast'.op = "delete" /\ sLast'.outcome = "returned") =>
          LET b == sLast'.chatbotId
              d == sLast'.documentId
          IN /\ \A id \in DOMAIN sCol'[b] : sCol'[b][id].meta["document_id"] # d
             /\ DOMAIN sCol'[b] \subseteq DOMAIN sCol[b]
             /\ \A id \in DOMAIN sCol[b] :
                   sCol[b][id].meta["document_id"] # d
                      => id \in DOMAIN sCol'[b] /\ sCol'[b][id] = sCol[b][id]
             /\ \A o \in Chatbots \ {b} : sCol'[o] = sCol[o]]_vars

\* A deletion returned that removed records of its document from a
\* collection in which a record of another document remains
C18_Witness ==
    /\ sLast.op = "delete" /\ sLast.outcome = "returned" /\ sLast.removed
    /\ \E id \in DOMAIN sCol[sLast.chatbotId] :
          sCol[sLast.chatbotId][id].meta["document_id"] # sLast.documentId

----------------------------------------------------------------------------
(* Properties of the containment filter *)

\* the candidate at index a is in the returned list
Survives(a) == \E k \in 1..Len(fOut) : fOut[k] = fCands[a]
\* inner lies within outer and is not the same box
StrictlyInside(inner, outer) == Contains(outer, inner) /\ inner # outer

\* C19: the containment filter returns candidates, in their order, such that
\* no returned box is contained in another returned box and every candidate
\* that no other candidate contains is returned; a candidate strictly inside
\* another is not returned, and of two candidates A strictly inside B exactly
\* B is returned, in whichever order they are listed.
C19_ContainmentFilter ==
    fPc = "done" =>
        /\ \E keep \in SUBSET (1..Len(fCands)) : fOut = FinalCandidates(fCands, 1, (1..Len(fCands)) \ keep)
        /\ \A a, b \in 1..Len(fCands) :
              (a # b /\ Survives(a) /\ Survives(b))
                 => ~Contains(fCands[b].bbox, fCands[a].bbox)
        /\ \A a \in 1..Len(fCands) :
              (\A b \in (1..Len(fCands)) \ {a} : ~Contains(fCands[b].bbox, fCands[a].bbox))
                 => Survives(a)
        /\ \A a, b \in 1..Len(fCands) :
              StrictlyInside(fCands[a].bbox, fCands[b].bbox) => ~Survives(a)
        /\ \A a, b \in 1..Len(fCands) :
              (Len(fCands) = 2 /\ StrictlyInside(fCands[a].bbox, fCands[b].bbox))
                 => fOut = <<fCands[b]>>

\* The filter returned exactly the outer box for a page that lists the inner
\* box before the outer one
C19_Witness ==
    /\ fPc = "done" /\ Len(fCands) = 2
    /\ StrictlyInside(fCands[1].bbox, fCands[2].bbox)
    /\ fOut = <<fCands[2]>>

----------------------------------------------------------------------------
(* Properties of the confidence estimate *)

\* position of a confidence level in unknown < low < medium < high
LevelRank(level) == IndexOf(<<"unknown", "low", "medium", "high">>, level)

\* C20: a maximum score s (thousandths) maps to high when s >= 0.85, to
\* medium when 0.65 <= s < 0.85, to low when 0.40 <= s < 0.65 and to unknown
\* when s < 0.40; no smaller score maps to a higher level.
C20_BucketMapping ==
    ePc = "done" =>
        /\ eScore >= 850 => eBucket = "high"
        /\ (650 <= eScore /\ eScore < 850) => eBucket = "medium"
        /\ (400 <= eScore /\ eScore < 650) => eBucket = "low"
        /\ eScore < 400 => eBucket = "unknown"
        /\ \A t \in 0..MaxScore :
              t <= eScore => LevelRank(EstimateRetrievalConfidence(t)) <= LevelRank(eBucket)

\* The estimate returned medium for the score 0.650, the lowest medium score
C20_Witness == ePc = "done" /\ eScore = 650 /\ eBucket = "medium"

----------------------------------------------------------------------------
(* Properties of a whole progressQuery run *)

\* how often the call of kind k was issued
CountOf(s, k) == Cardinality({i \in DOMAIN s : s[i] = k})

\* C21: within one progressQuery run LLM task 1, the query embedding, the
\* top-K store query and LLM task 2 are each called at most once, whether the
\* call failed or not.
C21_EachCallAtMostOnce ==
    \A k \in {"llm1", "embed", "store_query", "llm2"} : CountOf(calls, k) <= 1

\* The query embedding failed and the run ended without another attempt
C21_Witness ==
    /\ pc = "LOW_CONFIDENCE" /\ calls = <<"llm1", "embed">>

\* the sort key of chunksForLLM after the score class: document id, then
\* order_index, a chunk without order_index last
DocOrderKey(c) == <<DocRank[c.meta.document_id],
                    IF c.meta.has_oi THEN c.meta.order_index ELSE 1000000000>>
KeyLeq(a, b) == a[1] < b[1] \/ (a[1] = b[1] /\ a[2] <= b[2])

\* C24: the context passed to LLM task 2 holds at most 10 of the retrieved
\* chunks; it holds a chunk with score 0 only if it holds every retrieved
\* chunk with a positive score; positive-score chunks come before zero-score
\* chunks, and within each of the two the order is by document id, then by
\* order_index.
C24_ContextCapAndOrder ==
    (pc \in {"ANSWERED", "RAISED"} /\ CountOf(calls, "llm2") = 1) =>
        /\ Len(context) = Min({MAX_CONTEXT_CHUNKS_FOR_LLM, Len(chunks)}, 0)
        /\ Len(context) <= 10
        /\ Range(context) \subseteq Range(chunks)
        /\ Cardinality(Range(context)) = Len(context)
        /\ (\E i \in DOMAIN context : context[i].score = 0)
              => \A j \in DOMAIN chunks : chunks[j].score > 0 => chunks[j] \in Range(context)
        /\ \A i, j \in DOMAIN context :
              i < j =>
                 /\ ~(context[i].score = 0 /\ context[j].score > 0)
                 /\ ((context[i].score > 0) = (context[j].score > 0))
                       => KeyLeq(DocOrderKey(context[i]), DocOrderKey(context[j]))

\* Eleven chunks were retrieved, nine of them hits: the context holds the
\* nine hits and one neighbour, and one neighbour was left out
C24_Witness ==
    /\ pc = "ANSWERED" /\ Len(chunks) = 11 /\ Len(context) = 10
    /\ Cardinality({i \in DOMAIN chunks : chunks[i].score > 0}) = 9
    /\ Cardinality({i \in DOMAIN context : context[i].score > 0}) = 9

\* C25: a failure of the vector store or of the query embedding during SEARCH
\* (no collection, store client error, embedding error, query error) never
\* raises: the run goes on to the confidence gate, and a run whose search
\* returned nothing ends in LOW_CONFIDENCE with the insufficient-evidence
\* answer and without a call of LLM task 2.
C25_SearchFailureDegrades ==
    /\ stages = <<"REFINE", "SAFETY_CHECK", "SEARCH">>
          => (raised = "none" /\ pc = "CONFIDENCE_GATE")
    /\ (pc \in {"LOW_CONFIDENCE", "ANSWERED", "RAISED"} /\ CountOf(stages, "SEARCH") = 1
         /\ rawChunks = <<>>)
          => /\ pc = "LOW_CONFIDENCE"
             /\ result.answer = <<"INSUFFICIENT">>
             /\ CountOf(calls, "llm2") = 0

\* C26: the intent_ambiguity_level of the confidence gate is high for 0 hits
\* of the top-K search, medium for 1 or 2 hits and low for 3 or more; the
\* neighbour chunks added by the expansion do not count.
C26_AmbiguityFromHitCount ==
    CountOf(stages, "CONFIDENCE_GATE") = 1 =>
        ambiguity = (IF Len(baseChunks) = 0 THEN "high"
                     ELSE IF Len(baseChunks) <= 2 THEN "medium" ELSE "low")

\* C29: every supporting chunk of a returned QueryResult is one of the chunks
\* retrieved for the request, with the chunk_id, text and score it was
\* retrieved with.
C29_SupportingChunksRetrieved ==
    pc \in {"BLOCKED", "LOW_CONFIDENCE", "ANSWERED"} =>
        \A i \in DOMAIN result.supporting_chunks :
            \E j \in DOMAIN rawChunks :
                /\ rawChunks[j].chunk_id = result.supporting_chunks[i].chunk_id
                /\ rawChunks[j].text = result.supporting_chunks[i].text
                /\ rawChunks[j].score = result.supporting_chunks[i].score

\* C30: in a QueryResult returned in LOW_CONFIDENCE or ANSWERED,
\* retrieval_confidence is the bucket of the maximum retrieved score and
\* intent_ambiguity_level is the level computed at the confidence gate.
C30_ConfidenceFieldsFromGate ==
    pc \in {"LOW_CONFIDENCE", "ANSWERED"} =>
        /\ result.retrieval_confidence
              = EstimateRetrievalConfidence(Max({rawChunks[i].score : i \in DOMAIN rawChunks}, 0))
        /\ result.retrieval_confidence = conf
        /\ result.intent_ambiguity_level = ambiguity

----------------------------------------------------------------------------
(* Properties of the upload and DELETE flow *)

\* C22: the committed status of the uploaded document changes only along
\* pending -> indexing -> ready or pending -> indexing -> failed; it becomes
\* ready only after processDocument returned, failed only after
\* processDocument raised, and is not changed after ready or failed (the
\* removal of the row by a DELETE aside)
C22_StatusTransitions ==
    [][(uStatus' # uStatus /\ uStatus' # "absent") =>
          /\ <<uStatus, uStatus'>> \in {<<"pending", "indexing">>, <<"indexing", "ready">>,
                                        <<"indexing", "failed">>}
          /\ (uStatus' = "ready" => uProc = "returned")
          /\ (uStatus' = "failed" => uProc = "raised")]_vars

\* C28: once a DELETE of the document has completed (its row is gone), the
\* collection holds no record with that document_id
C28_NoRecordAfterDelete == uStatus = "absent" => ~HoldsDocument(uCol, UploadDoc)

----------------------------------------------------------------------------
(* Properties of the OCR reader cache *)

\* C23: under every interleaving of the threads, easyocr.Reader is
\* constructed at most once, and every thread that has obtained its reader
\* holds the one cached instance
C23_ReaderConstructedOnce ==
    /\ rBuilt <= 1
    /\ \A t \in DOMAIN rPc : rPc[t] \in {"readtext", "done"} => rLocal[t] = rReader

----------------------------------------------------------------------------
(* Properties of runOCR *)

\* the TextBlocks of page i in allBlocks
TextBlocksOfPage(i) == SelectSeq(oBlocks, LAMBDA b : b.page = i)

ZeroScale(maskedPage) == maskedPage.scaleX = 0 \/ maskedPage.scaleY = 0

\* the entries of a readtext result that unpack and have non-blank text
KeptEntries(read) ==
    SelectSeq(read.entries, LAMBDA e : e.kind = "triple" /\ Strip(e.text) # <<>>)

====
